---- MODULE Spec2Model ----
(***************************************************************************)
(* Session-and-connection core of the multiplayer relay (Go server under   *)
(* internal/service, internal/handlers, internal/spatial).                 *)
(*                                                                         *)
(* Granularity: one action per critical section (a lock acquisition up to  *)
(* its release) of the goroutine that runs a connection, together with the *)
(* goroutine-local computation next to it.  A fan-out (Broadcast,          *)
(* BroadcastToPlayers, State.Broadcast) is one action in Spec, since the   *)
(* caller holds the read lock until every send has returned; SpecFan       *)
(* unfolds one Session.Broadcast into its per-recipient sends.             *)
(*                                                                         *)
(* Session identifiers are taken fresh from SessionIDs (the generator      *)
(* draws 6 of 32 characters at random; a collision is not modelled), so a  *)
(* session object and its ID are the same value here.                      *)
(***************************************************************************)
EXTENDS Integers, Sequences, FiniteSets, TLC

\* ---------------------------------------------------------------- bounds
NumPlayers == 2
MaxSessions == 2
MaxFrames == 3
MaxRecalls == 1
MaxSweeps == 1

\* ------------------------------------------------------------- constants
CellSize == 50
ViewDistance == 100

Player == 1..NumPlayers
SessionIDs == 1..MaxSessions
Sweeper == 0
Proc == 0..NumPlayers
NoSession == 0
NullRot == -1

GetSessions == "listSessions"
CreateSession == "createSession"
JoinSession == "joinSession"
StartSession == "startSession"
UpdatePlayer == "update"
PlayerSound == "sound"

UpdateSessionList == "updateSessionList"
SessionCreated == "sessionCreated"
SessionJoined == "sessionJoined"
SessionStarted == "sessionStarted"
PlayerJoined == "playerJoined"
PlayerUpdated == "playerUpdate"
PlayerLeft == "playerLeft"
PlaySound == "playSound"
ErrorMessage == "error"
CloseMessage == "close"

Usernames == {"ann"}
SoundTypes == {"moo"}
SoundPositions == {<<10, 0, 10>>}
InitialPresence == [position |-> <<0, 0, 0>>, rotation |-> 0, modelRotation |-> NullRot, animation |-> "idle"]
UpdateInputs ==
  { [position |-> <<10, 0, 10>>, rotation |-> 1, modelRotation |-> 1, animation |-> "walk"],
    [position |-> <<500, 0, 500>>, rotation |-> 2, modelRotation |-> 2, animation |-> "run"] }

NoMsg == [type |-> "none"]
NoHealth == [status |-> "none"]
NoWrite == [msg |-> NoMsg, from |-> 0, rsid |-> 0]
NoFan == [message |-> NoMsg, targets |-> {}, pending |-> {}]

\* the mutexes: State.mu, GameSession.mu, Grid.mutex, Player.mu, Player.writeMu
Nobody == -1
LockIDs ==
  {<<"state", 0>>} \cup {<<"sess", s>> : s \in SessionIDs} \cup {<<"grid", s>> : s \in SessionIDs}
    \cup {<<"player", p>> : p \in Player} \cup {<<"write", p>> : p \in Player}
FreeLock == [w |-> Nobody, r |-> [x \in Proc |-> 0], ww |-> {}]

VARIABLES
  pc,            \* position of each goroutine (connection supervisors and the sweeper)
  msg,           \* the frame a supervisor is dispatching
  session,       \* local *GameSession of the running handler
  payload,       \* local payload about to be written
  existingPlayers, \* local snapshot taken by AddPlayer
  nearby,        \* local result of GetNearbyPlayers
  ret,           \* where the running RemoveSession returns to
  sessionsToRemove, \* local slice of CleanupLoop
  frames,        \* frames dispatched so far
  recalls,       \* extra HandleDisconnect calls made so far
  sweeps,        \* ticks of the cleanup ticker that found an empty session
  LobbyPlayers,  \* State.LobbyPlayers (keys)
  Sessions,      \* State.Sessions (keys)
  allocated,     \* session objects constructed so far
  CreatorID, Players, PlayerCount, Started,   \* GameSession fields
  cells, playerCells,                          \* Grid fields of each session
  Username, SessionID, Presence, Conn, Disconnected,  \* Player fields
  out,           \* what the last step wrote to each connection
  joined,        \* history: players ever inserted into each session
  cleanups,      \* history: times the body of HandleDisconnect ran
  fan,           \* SpecFan: the running Broadcast (its message, the members it ranges over, sends pending)
  fanSent,       \* SpecFan: writes of that Broadcast that succeeded, per recipient
  fanFailed,     \* SpecFan: writes of that Broadcast that returned an error, per recipient
  fanPhase,      \* SpecFan: "idle", "running" (read lock held) or "returned"
  lk,            \* SpecLocks: every mutex (its writer, its readers, the writers waiting for it)
  prog,          \* SpecLocks: the lock operations each goroutine still has to do in its handler
  ops,           \* SpecLocks: handlers started so far
  inflight,      \* per connection, the calls into its transport's write path that have not returned
  idBuf,         \* GenerateSessionID: the byte slice b (empty before the first call)
  told,          \* history (SpecJoin): the players each player has been told about by AddPlayer's writes
  reader,         \* per connection, where its reader goroutine is ("none" where it is not followed)
  health         \* the body of the last response of GET /health

procVars == <<pc, msg, session, payload, existingPlayers, nearby, ret, sessionsToRemove>>
envVars == <<frames, recalls, sweeps>>
stateVars == <<LobbyPlayers, Sessions>>
sessVars == <<allocated, CreatorID, Players, PlayerCount, Started>>
gridVars == <<cells, playerCells>>
playerVars == <<Username, SessionID, Presence, Conn, Disconnected>>
histVars == <<joined, cleanups>>
fanVars == <<fan, fanSent, fanFailed, fanPhase>>
lockVars == <<lk, prog, ops>>
connVars == <<inflight>>
genVars == <<idBuf>>
toldVars == <<told>>
readerVars == <<reader>>
healthVars == <<health>>
vars == <<procVars, envVars, stateVars, sessVars, gridVars, playerVars, out, histVars, fanVars, lockVars, connVars, genVars, toldVars, readerVars, healthVars>>

\* ------------------------------------------------------------ projections
\* Player.ExportInfo
ExportInfo(p) ==
  [id |-> p, username |-> Username[p], position |-> Presence[p].position,
   rotation |-> Presence[p].rotation, modelRotation |-> Presence[p].modelRotation,
   animation |-> Presence[p].animation]

\* GameSession.ExportInfo (name and createdAt are fixed at construction and left out)
SessionExportInfo(s) ==
  [id |-> s, creatorId |-> CreatorID[s], playerCount |-> PlayerCount[s], started |-> Started[s]]

\* GameSession.ExportPlayerInfos
ExportPlayerInfos(s) == {ExportInfo(q) : q \in Players[s]}

\* GameState.ListSessions
ListSessions == {SessionExportInfo(s) : s \in Sessions}

\* a lookup that finds a session under every ID
GetSessionUnchecked(sid) == sid

\* GameState.GetSession: the session, or NoSession when the ID is not registered
GetSession(sid) == IF sid \in Sessions THEN sid ELSE NoSession

\* a lookup that finds no session for the player
PlayerGetSessionNone(p) == NoSession

\* Player.GetSession
PlayerGetSession(p) == IF SessionID[p] # NoSession THEN GetSession(SessionID[p]) ELSE NoSession

\* an IsEmpty that finds a member in every session
IsEmptyNever(s) == FALSE
\* GameSession.IsEmpty
IsEmpty(s) == Players[s] = {}
IsStarted(s) == Started[s]
\* an IsCreator that takes every player for the creator
IsCreatorOfAny(s, p) == TRUE
\* GameSession.IsCreator
IsCreator(s, p) == CreatorID[s] = p

\* ----------------------------------------------------------------- events
FormatUpdateSessionList(sessions) == [type |-> UpdateSessionList, sessions |-> sessions]
FormatSessionNotFound == [type |-> ErrorMessage, message |-> "Session not found. Please check the ID and try again."]
FormatNotCreator == [type |-> ErrorMessage, message |-> "Only the session creator can start the game"]
\* events.FormatCreateSession; no handler of the dispatcher calls it (the session name is left out)
FormatCreateSession(s) == [type |-> SessionCreated, sessionId |-> s]
FormatJoinSession(s, p, existing, started) ==
  [type |-> SessionJoined, sessionId |-> s, playerId |-> p, players |-> existing, started |-> started]
FormatSessionStarted(s) == [type |-> SessionStarted, sessionId |-> s]
FormatPlayerJoined(playerData) == [type |-> PlayerJoined, player |-> playerData]
FormatPlayerLeft(p) == [type |-> PlayerLeft, id |-> p]
FormatPlayerUpdated(p, m) ==
  [type |-> PlayerUpdated, id |-> p, position |-> m.position, rotation |-> m.rotation,
   modelRotation |-> m.modelRotation, animation |-> m.animation]
FormatPlaySound(p, soundType, position) ==
  [type |-> PlaySound, id |-> p, soundType |-> soundType, position |-> position]

\* ------------------------------------------------------------ connection
\* Player.WriteMessage reaches the transport unless the handle is nil or the
\* player is marked disconnected
WriteSucceeds(q) == Conn[q] # "nil" /\ ~Disconnected[q]

\* one record per payload written: the payload, the session whose fan-out wrote
\* it (NoSession for a reply or a lobby fan-out) and the recipient's SessionID then
Written(q, m, from) == [msg |-> m, from |-> from, rsid |-> SessionID[q]]

\* a step that writes to no connection
Quiet == out' = [q \in Player |-> NoWrite]

\* a step that writes m to every connection of recipients that accepts it
Deliver(recipients, m, from) ==
  out' = [q \in Player |->
            IF q \in recipients /\ WriteSucceeds(q) THEN Written(q, m, from) ELSE NoWrite]

\* ------------------------------------------------------------------ grid
FloorDiv(a, b) == a \div b
CeilDiv(a, b) == (a + b - 1) \div b
\* a grid that puts every position into one cell
getCellKeyOneCell(pos) == <<0, 0>>
\* Grid.getCellKey
getCellKey(pos) == <<FloorDiv(pos[1], CellSize), FloorDiv(pos[3], CellSize)>>
\* a query that looks no further than the adjacent cells
cellRadiusAdjacent == CeilDiv(CellSize, CellSize)
\* GetNearbyPlayers: cellRadius := int(math.Ceil(g.viewDistance / g.cellSize))
cellRadius == CeilDiv(ViewDistance, CellSize)
Abs(n) == IF n < 0 THEN -n ELSE n

\* a removal that keeps the cell it has emptied
CellsWithoutKeepingEmpty(cs, c, p) ==
  IF c \notin DOMAIN cs THEN cs ELSE [cs EXCEPT ![c] = @ \ {p}]

\* cells after deleting player p from cell c, dropping the cell when it empties
CellsWithout(cs, c, p) ==
  IF c \notin DOMAIN cs THEN cs
  ELSE IF cs[c] \ {p} = {} THEN [d \in DOMAIN cs \ {c} |-> cs[d]]
  ELSE [cs EXCEPT ![c] = @ \ {p}]

\* cells after inserting player p into cell c
CellsWith(cs, c, p) ==
  [d \in DOMAIN cs \cup {c} |-> IF d = c THEN (IF c \in DOMAIN cs THEN cs[c] ELSE {}) \cup {p} ELSE cs[d]]

\* Grid.GetNearbyPlayers over the grid of session s
GetNearbyPlayers(s, p) ==
  IF p \notin DOMAIN playerCells[s] THEN {}
  ELSE LET cell == playerCells[s][p] IN
       {q \in Player \ {p} :
          \E c \in DOMAIN cells[s] :
             /\ q \in cells[s][c]
             /\ Abs(c[1] - cell[1]) <= cellRadius
             /\ Abs(c[2] - cell[2]) <= cellRadius}

EmptyMap == [x \in {} |-> {}]

\* --------------------------------------------------------- control helpers
Goto(x, label) == pc' = [pc EXCEPT ![x] = label]

\* the handler of goroutine x returns: its locals are dead
ClearLocals(x) ==
  /\ msg' = [msg EXCEPT ![x] = NoMsg]
  /\ session' = [session EXCEPT ![x] = NoSession]
  /\ payload' = [payload EXCEPT ![x] = NoMsg]
  /\ existingPlayers' = [existingPlayers EXCEPT ![x] = {}]
  /\ nearby' = [nearby EXCEPT ![x] = {}]
  /\ ret' = [ret EXCEPT ![x] = "none"]

\* handleMessage returns to the select loop of handlePlayerMessages
BackToLoop(p) == Goto(p, "loop") /\ ClearLocals(p) /\ UNCHANGED sessionsToRemove

\* HandleDisconnect returns
Finish(p) == Goto(p, "done") /\ ClearLocals(p) /\ UNCHANGED sessionsToRemove

\* a loop that takes the next frame while a handler is still running
CanReceiveAnytime(p) == frames < MaxFrames

\* handlePlayerMessages: the select loop takes the next frame when handleMessage has returned
CanReceive(p) == pc[p] = "loop" /\ frames < MaxFrames

Init ==
  /\ pc = [x \in Proc |-> IF x = Sweeper THEN "sw_idle" ELSE "new"]
  /\ msg = [x \in Proc |-> NoMsg]
  /\ session = [x \in Proc |-> NoSession]
  /\ payload = [x \in Proc |-> NoMsg]
  /\ existingPlayers = [x \in Proc |-> {}]
  /\ nearby = [x \in Proc |-> {}]
  /\ ret = [x \in Proc |-> "none"]
  /\ sessionsToRemove = {}
  /\ frames = 0
  /\ recalls = 0
  /\ sweeps = 0
  /\ LobbyPlayers = {}
  /\ Sessions = {}
  /\ allocated = {}
  /\ CreatorID = [s \in SessionIDs |-> 0]
  /\ Players = [s \in SessionIDs |-> {}]
  /\ PlayerCount = [s \in SessionIDs |-> 0]
  /\ Started = [s \in SessionIDs |-> FALSE]
  /\ cells = [s \in SessionIDs |-> EmptyMap]
  /\ playerCells = [s \in SessionIDs |-> EmptyMap]
  /\ Username = [p \in Player |-> ""]
  /\ SessionID = [p \in Player |-> NoSession]
  /\ Presence = [p \in Player |-> InitialPresence]
  /\ Conn = [p \in Player |-> "open"]
  /\ Disconnected = [p \in Player |-> FALSE]
  /\ out = [p \in Player |-> NoWrite]
  /\ joined = [s \in SessionIDs |-> {}]
  /\ cleanups = [p \in Player |-> 0]
  /\ fan = NoFan
  /\ fanSent = [q \in Player |-> 0]
  /\ fanFailed = [q \in Player |-> 0]
  /\ fanPhase = "idle"
  /\ lk = [m \in LockIDs |-> FreeLock]
  /\ prog = [x \in Proc |-> << >>]
  /\ ops = 0
  /\ inflight = [q \in Player |-> 0]
  /\ idBuf = << >>
  /\ told = << >>
  /\ reader = [q \in Player |-> "none"]
  /\ health = NoHealth

\* ------------------------------------------------------------ environment
\* HandleWebSocket: NewPlayer, State.AddLobbyPlayer, then handlePlayerMessages
HandleWebSocket(p) ==
  /\ pc[p] = "new"
  /\ \A q \in Player : q < p => pc[q] # "new"
  /\ LobbyPlayers' = LobbyPlayers \cup {p}
  /\ Goto(p, "loop")
  /\ UNCHANGED <<msg, session, payload, existingPlayers, nearby, ret, sessionsToRemove,
                 envVars, Sessions, sessVars, gridVars, playerVars, histVars, fanVars, lockVars, connVars, genVars, toldVars, readerVars, healthVars>>
  /\ Quiet

\* ------------------------------------------------------------- dispatcher
\* a frame that is answered with an error instead of being dropped
DiscardFrameWithReply(p, why) ==
  /\ CanReceive(p)
  /\ frames' = frames + 1
  /\ payload' = [payload EXCEPT ![p] = [type |-> ErrorMessage, message |-> why]]
  /\ Goto(p, "reply")
  /\ UNCHANGED <<msg, session, existingPlayers, nearby, ret, sessionsToRemove, recalls, sweeps,
                 stateVars, sessVars, gridVars, playerVars, histVars, fanVars, lockVars, connVars, genVars, toldVars, readerVars, healthVars>>
  /\ Quiet

\* handlePlayerMessages on a frame json.Unmarshal rejects (continue), and
\* handleMessage on a type no case of its switch names: the frame is dropped
DiscardFrame(p, why) ==
  /\ CanReceive(p)
  /\ frames' = frames + 1
  /\ UNCHANGED <<procVars, recalls, sweeps, stateVars, sessVars, gridVars, playerVars, histVars,
                 fanVars, lockVars, connVars, genVars, toldVars, readerVars, healthVars>>
  /\ Quiet

\* handleListSessions, up to the reply
handleListSessions(p) ==
  /\ CanReceive(p)
  /\ frames' = frames + 1
  /\ msg' = [msg EXCEPT ![p] = [type |-> GetSessions]]
  /\ payload' = [payload EXCEPT ![p] = FormatUpdateSessionList(ListSessions)]
  /\ Goto(p, "reply")
  /\ UNCHANGED <<session, existingPlayers, nearby, ret, sessionsToRemove, recalls, sweeps,
                 stateVars, sessVars, gridVars, playerVars, histVars, fanVars, lockVars, connVars, genVars, toldVars, readerVars, healthVars>>
  /\ Quiet

\* the reply of a request-response handler: player.WriteMessage(payload)
Reply(p) ==
  /\ pc[p] = "reply"
  /\ Deliver({p}, payload[p], NoSession)
  /\ BackToLoop(p)
  /\ UNCHANGED <<envVars, stateVars, sessVars, gridVars, playerVars, histVars, fanVars, lockVars, connVars, genVars, toldVars, readerVars, healthVars>>

\* handleCreateSession: SetUsername when supplied, NewGameSession, then JoinSession
handleCreateSession(p, username) ==
  /\ CanReceive(p)
  /\ Cardinality(allocated) < MaxSessions
  /\ LET s == Cardinality(allocated) + 1 IN
       /\ frames' = frames + 1
       /\ msg' = [msg EXCEPT ![p] = [type |-> CreateSession, username |-> username]]
       /\ Username' = IF username # "" THEN [Username EXCEPT ![p] = username] ELSE Username
       /\ allocated' = allocated \cup {s}
       /\ CreatorID' = [CreatorID EXCEPT ![s] = p]
       /\ session' = [session EXCEPT ![p] = s]
       /\ Goto(p, "add_1")
  /\ UNCHANGED <<payload, existingPlayers, nearby, ret, sessionsToRemove, recalls, sweeps, stateVars,
                 Players, PlayerCount, Started, gridVars, SessionID, Presence, Conn, Disconnected, histVars, fanVars, lockVars, connVars, genVars, toldVars, readerVars, healthVars>>
  /\ Quiet

\* handleJoinSession: State.GetSession, then the error reply or SetUsername and JoinSession
handleJoinSession(p, sid, username) ==
  /\ CanReceive(p)
  /\ frames' = frames + 1
  /\ msg' = [msg EXCEPT ![p] = [type |-> JoinSession, sessionId |-> sid, username |-> username]]
  /\ IF GetSession(sid) = NoSession
       THEN /\ payload' = [payload EXCEPT ![p] = FormatSessionNotFound]
            /\ Goto(p, "reply")
            /\ UNCHANGED <<session, Username>>
       ELSE /\ Username' = [Username EXCEPT ![p] = username]
            /\ session' = [session EXCEPT ![p] = sid]
            /\ Goto(p, "add_1")
            /\ UNCHANGED payload
  /\ UNCHANGED <<existingPlayers, nearby, ret, sessionsToRemove, recalls, sweeps, stateVars, sessVars,
                 gridVars, SessionID, Presence, Conn, Disconnected, histVars, fanVars, lockVars, connVars, genVars, toldVars, readerVars, healthVars>>
  /\ Quiet

\* handleStartSession: State.GetSession and IsCreator, then an error reply or Start
handleStartSession(p, sid) ==
  /\ CanReceive(p)
  /\ frames' = frames + 1
  /\ msg' = [msg EXCEPT ![p] = [type |-> StartSession, sessionId |-> sid]]
  /\ IF GetSession(sid) = NoSession
       THEN /\ payload' = [payload EXCEPT ![p] = FormatSessionNotFound]
            /\ Goto(p, "reply")
            /\ UNCHANGED session
       ELSE IF ~IsCreator(sid, p)
       THEN /\ payload' = [payload EXCEPT ![p] = FormatNotCreator]
            /\ Goto(p, "reply")
            /\ UNCHANGED session
       ELSE /\ session' = [session EXCEPT ![p] = sid]
            /\ Goto(p, "start_2")
            /\ UNCHANGED payload
  /\ UNCHANGED <<existingPlayers, nearby, ret, sessionsToRemove, recalls, sweeps, stateVars, sessVars,
                 gridVars, playerVars, histVars, fanVars, lockVars, connVars, genVars, toldVars, readerVars, healthVars>>
  /\ Quiet

\* a Start that flips the flag
StartedAfterStartFlipped(s) == [Started EXCEPT ![s] = ~@]
\* GameSession.Start: s.Started = true
StartedAfterStart(s) == [Started EXCEPT ![s] = TRUE]

\* GameSession.Start
Start(p) ==
  /\ pc[p] = "start_2"
  /\ Started' = StartedAfterStart(session[p])
  /\ Goto(p, "start_3")
  /\ UNCHANGED <<msg, session, payload, existingPlayers, nearby, ret, sessionsToRemove, envVars,
                 stateVars, allocated, CreatorID, Players, PlayerCount, gridVars, playerVars, histVars, fanVars, lockVars, connVars, genVars, toldVars, readerVars, healthVars>>
  /\ Quiet

\* a Broadcast that goes only to the members the grid of s tracks
BroadcastTracked(s, m) == Deliver({q \in Players[s] : q \in DOMAIN playerCells[s]}, m, s)

\* GameSession.Broadcast of one message to the members of s
Broadcast(s, m) == Deliver(Players[s], m, s)

\* a BroadcastToPlayers that goes to every member whatever the list says
BroadcastToPlayersUnfiltered(s, m, playerIDs) == Deliver(Players[s], m, s)

\* GameSession.BroadcastToPlayers: the listed IDs that are members of s
BroadcastToPlayers(s, m, playerIDs) == Deliver({q \in playerIDs : q \in Players[s]}, m, s)

\* GameState.Broadcast: to the lobby players
StateBroadcast(m) == Deliver(LobbyPlayers, m, NoSession)

\* handleStartSession: session.Broadcast(sessionStarted)
handleStartSession_Broadcast(p) ==
  /\ pc[p] = "start_3"
  /\ Broadcast(session[p], FormatSessionStarted(session[p]))
  /\ BackToLoop(p)
  /\ UNCHANGED <<envVars, stateVars, sessVars, gridVars, playerVars, histVars, fanVars, lockVars, connVars, genVars, toldVars, readerVars, healthVars>>

\* handleUpdate: player.UpdateState and player.GetSession
handleUpdate(p, in) ==
  /\ CanReceive(p)
  /\ frames' = frames + 1
  /\ Presence' = [Presence EXCEPT ![p] = in]
  /\ IF PlayerGetSession(p) = NoSession
       THEN BackToLoop(p)
       ELSE /\ msg' = [msg EXCEPT ![p] = [type |-> UpdatePlayer, state |-> in]]
            /\ session' = [session EXCEPT ![p] = PlayerGetSession(p)]
            /\ Goto(p, "upd_2")
            /\ UNCHANGED <<payload, existingPlayers, nearby, ret, sessionsToRemove>>
  /\ UNCHANGED <<recalls, sweeps, stateVars, sessVars, gridVars, Username, SessionID, Conn,
                 Disconnected, histVars, fanVars, lockVars, connVars, genVars, toldVars, readerVars, healthVars>>
  /\ Quiet

\* Grid.UpdatePlayerPosition
UpdatePlayerPosition(p) ==
  /\ pc[p] = "upd_2"
  /\ LET s == session[p]
         newCell == getCellKey(msg[p].state.position)
         tracked == p \in DOMAIN playerCells[s]
     IN IF tracked /\ playerCells[s][p] = newCell
          THEN UNCHANGED gridVars
          ELSE /\ cells' = [cells EXCEPT ![s] =
                     CellsWith(IF tracked THEN CellsWithout(cells[s], playerCells[s][p], p) ELSE cells[s],
                               newCell, p)]
               /\ playerCells' = [playerCells EXCEPT ![s] =
                     [q \in DOMAIN playerCells[s] \cup {p} |-> IF q = p THEN newCell ELSE playerCells[s][q]]]
  /\ Goto(p, "upd_3")
  /\ UNCHANGED <<msg, session, payload, existingPlayers, nearby, ret, sessionsToRemove, envVars,
                 stateVars, sessVars, playerVars, histVars, fanVars, lockVars, connVars, genVars, toldVars, readerVars, healthVars>>
  /\ Quiet

\* handleUpdate: session.Grid.GetNearbyPlayers
handleUpdate_Nearby(p) ==
  /\ pc[p] = "upd_3"
  /\ nearby' = [nearby EXCEPT ![p] = GetNearbyPlayers(session[p], p)]
  /\ Goto(p, "upd_4")
  /\ UNCHANGED <<msg, session, payload, existingPlayers, ret, sessionsToRemove, envVars,
                 stateVars, sessVars, gridVars, playerVars, histVars, fanVars, lockVars, connVars, genVars, toldVars, readerVars, healthVars>>
  /\ Quiet

\* handleUpdate: session.BroadcastToPlayers(playerUpdate, nearby)
handleUpdate_Broadcast(p) ==
  /\ pc[p] = "upd_4"
  /\ BroadcastToPlayers(session[p], FormatPlayerUpdated(p, msg[p].state), nearby[p])
  /\ BackToLoop(p)
  /\ UNCHANGED <<envVars, stateVars, sessVars, gridVars, playerVars, histVars, fanVars, lockVars, connVars, genVars, toldVars, readerVars, healthVars>>

\* handleSound: player.GetSession
handleSound(p, soundType, position) ==
  /\ CanReceive(p)
  /\ frames' = frames + 1
  /\ IF PlayerGetSession(p) = NoSession
       THEN BackToLoop(p)
       ELSE /\ msg' = [msg EXCEPT ![p] = [type |-> PlayerSound, soundType |-> soundType,
                                          position |-> position]]
            /\ session' = [session EXCEPT ![p] = PlayerGetSession(p)]
            /\ Goto(p, "snd_2")
            /\ UNCHANGED <<payload, existingPlayers, nearby, ret, sessionsToRemove>>
  /\ UNCHANGED <<recalls, sweeps, stateVars, sessVars, gridVars, playerVars, histVars, fanVars, lockVars, connVars, genVars, toldVars, readerVars, healthVars>>
  /\ Quiet

\* handleSound: session.Broadcast(playSound)
handleSound_Broadcast(p) ==
  /\ pc[p] = "snd_2"
  /\ Broadcast(session[p], FormatPlaySound(p, msg[p].soundType, msg[p].position))
  /\ BackToLoop(p)
  /\ UNCHANGED <<envVars, stateVars, sessVars, gridVars, playerVars, histVars, fanVars, lockVars, connVars, genVars, toldVars, readerVars, healthVars>>

\* ------------------------------------------------- Player.JoinSession
\* AddPlayer: existingPlayers := s.ExportPlayerInfos()
AddPlayer_Export(p) ==
  /\ pc[p] = "add_1"
  /\ existingPlayers' = [existingPlayers EXCEPT ![p] = ExportPlayerInfos(session[p])]
  /\ Goto(p, "add_2")
  /\ UNCHANGED <<msg, session, payload, nearby, ret, sessionsToRemove, envVars, stateVars,
                 sessVars, gridVars, playerVars, histVars, fanVars, lockVars, connVars, genVars, toldVars, readerVars, healthVars>>
  /\ Quiet

\* PlayerCount taken from the map as it is before the update
CountBeforeUpdate(s, members) == Cardinality(Players[s])

\* the value AddPlayer and RemovePlayer store in PlayerCount of session s after
\* they have updated the map to members: len(s.Players)
CountOf(s, members) == Cardinality(members)

\* AddPlayer: the section under s.mu.Lock
AddPlayer_Insert(p) ==
  /\ pc[p] = "add_2"
  /\ LET s == session[p] IN
       /\ Players' = [Players EXCEPT ![s] = @ \cup {p}]
       /\ PlayerCount' = [PlayerCount EXCEPT ![s] = CountOf(s, Players[s] \cup {p})]
       /\ joined' = [joined EXCEPT ![s] = @ \cup {p}]
  /\ Goto(p, "add_3")
  /\ UNCHANGED <<msg, session, payload, existingPlayers, nearby, ret, sessionsToRemove, envVars,
                 stateVars, allocated, CreatorID, Started, gridVars, playerVars, cleanups, fanVars, lockVars, connVars, genVars, toldVars, readerVars, healthVars>>
  /\ Quiet

\* the players a written message names to its recipient: the joiner and the
\* players list of a sessionJoined, the player of a playerJoined
NamedIn(m) ==
  IF m.type = SessionJoined THEN {m.playerId} \cup {i.id : i \in m.players}
  ELSE IF m.type = PlayerJoined THEN {m.player.id}
  ELSE {}

\* history of what this step's writes told their recipients, kept by the
\* specifications that start with it (told is << >> where it is not kept)
Tell ==
  told' = IF told = << >> THEN told
          ELSE [q \in Player |-> told[q] \cup NamedIn(out'[q].msg)]

\* a RemoveLobbyPlayer that leaves the map as it is
RemoveLobbyPlayerSkipped(p) == LobbyPlayers

\* GameState.RemoveLobbyPlayer: the lobby map after delete(s.LobbyPlayers, playerID)
RemoveLobbyPlayer(p) == LobbyPlayers \ {p}

\* AddPlayer: State.RemoveLobbyPlayer(player.ID)
AddPlayer_RemoveLobbyPlayer(p) ==
  /\ pc[p] = "add_3"
  /\ LobbyPlayers' = RemoveLobbyPlayer(p)
  /\ Goto(p, "add_4")
  /\ UNCHANGED <<msg, session, payload, existingPlayers, nearby, ret, sessionsToRemove, envVars,
                 Sessions, sessVars, gridVars, playerVars, histVars, fanVars, lockVars, connVars, genVars, toldVars, readerVars, healthVars>>
  /\ Quiet

\* AddPlayer going on to the playerJoined broadcast whatever the write returned
AfterNotifyIgnoringError(written) == "add_5"

\* AddPlayer: if err != nil { return }
AfterNotify(written) == IF written THEN "add_5" ELSE "join_sid"

\* AddPlayer: the sessionJoined confirmation to the joiner; the transport may fail
\* under this write, and a failed write returns
AddPlayer_Notify(p) ==
  /\ pc[p] = "add_4"
  /\ \E transport \in {"ok", "error"} :
       /\ IF WriteSucceeds(p) /\ transport = "ok"
            THEN /\ Deliver({p}, FormatJoinSession(session[p], p, existingPlayers[p], Started[session[p]]), NoSession)
                 /\ Goto(p, AfterNotify(TRUE))
            ELSE /\ Quiet
                 /\ Goto(p, AfterNotify(FALSE))
  /\ Tell
  /\ UNCHANGED <<msg, session, payload, existingPlayers, nearby, ret, sessionsToRemove, envVars,
                 stateVars, sessVars, gridVars, playerVars, histVars, fanVars, lockVars, connVars, genVars, readerVars, healthVars>>

\* AddPlayer: s.Broadcast(playerJoined)
AddPlayer_Broadcast(p) ==
  /\ pc[p] = "add_5"
  /\ payload' = [payload EXCEPT ![p] = FormatPlayerJoined(ExportInfo(p))]
  /\ Broadcast(session[p], FormatPlayerJoined(ExportInfo(p)))
  /\ Goto(p, "add_6")
  /\ Tell
  /\ UNCHANGED <<msg, session, existingPlayers, nearby, ret, sessionsToRemove, envVars,
                 stateVars, sessVars, gridVars, playerVars, histVars, fanVars, lockVars, connVars, genVars, readerVars, healthVars>>

\* AddPlayer: State.Broadcast(playerJoined)
AddPlayer_StateBroadcast(p) ==
  /\ pc[p] = "add_6"
  /\ StateBroadcast(payload[p])
  /\ Goto(p, "join_sid")
  /\ Tell
  /\ UNCHANGED <<msg, session, payload, existingPlayers, nearby, ret, sessionsToRemove, envVars,
                 stateVars, sessVars, gridVars, playerVars, histVars, fanVars, lockVars, connVars, genVars, readerVars, healthVars>>

\* JoinSession: p.SessionID = session.ID; handleCreateSession goes on to AddSession
JoinSession_SetSessionID(p) ==
  /\ pc[p] = "join_sid"
  /\ SessionID' = [SessionID EXCEPT ![p] = session[p]]
  /\ IF msg[p].type = CreateSession
       THEN /\ Goto(p, "as_1")
            /\ ret' = [ret EXCEPT ![p] = "loop"]
            /\ payload' = [payload EXCEPT ![p] = NoMsg]
            /\ existingPlayers' = [existingPlayers EXCEPT ![p] = {}]
            /\ UNCHANGED <<msg, session, nearby, sessionsToRemove>>
       ELSE BackToLoop(p)
  /\ UNCHANGED <<envVars, stateVars, sessVars, gridVars, Username, Presence, Conn, Disconnected, histVars, fanVars, lockVars, connVars, genVars, toldVars, readerVars, healthVars>>
  /\ Quiet

\* ------------------------------------------- GameState.AddSession / RemoveSession
\* AddSession: the section under s.mu.Lock
AddSession_Insert(p) ==
  /\ pc[p] = "as_1"
  /\ Sessions' = Sessions \cup {session[p]}
  /\ Goto(p, "sl_list")
  /\ UNCHANGED <<msg, session, payload, existingPlayers, nearby, ret, sessionsToRemove, envVars,
                 LobbyPlayers, sessVars, gridVars, playerVars, histVars, fanVars, lockVars, connVars, genVars, toldVars, readerVars, healthVars>>
  /\ Quiet

\* RemoveSession called from HandleDisconnect: the section under s.mu.Lock
RemoveSession_Delete(p) ==
  /\ pc[p] = "rs_1"
  /\ Sessions' = Sessions \ {session[p]}
  /\ Goto(p, "sl_list")
  /\ UNCHANGED <<msg, session, payload, existingPlayers, nearby, ret, sessionsToRemove, envVars,
                 LobbyPlayers, sessVars, gridVars, playerVars, histVars, fanVars, lockVars, connVars, genVars, toldVars, readerVars, healthVars>>
  /\ Quiet

\* AddSession / RemoveSession: payload := FormatUpdateSessionList(s.ListSessions())
SessionList_Format(x) ==
  /\ pc[x] = "sl_list"
  /\ payload' = [payload EXCEPT ![x] = FormatUpdateSessionList(ListSessions)]
  /\ Goto(x, "sl_bcast")
  /\ UNCHANGED <<msg, session, existingPlayers, nearby, ret, sessionsToRemove, envVars,
                 stateVars, sessVars, gridVars, playerVars, histVars, fanVars, lockVars, connVars, genVars, toldVars, readerVars, healthVars>>
  /\ Quiet

\* AddSession / RemoveSession: s.Broadcast(payload), then the caller continues
SessionList_Broadcast(x) ==
  /\ pc[x] = "sl_bcast"
  /\ StateBroadcast(payload[x])
  /\ IF ret[x] = "loop" THEN BackToLoop(x)
     ELSE IF ret[x] = "done" THEN Finish(x)
     ELSE IF x = Sweeper THEN Goto(x, ret[x]) /\ ClearLocals(x) /\ UNCHANGED sessionsToRemove
     ELSE /\ Goto(x, ret[x])
          /\ payload' = [payload EXCEPT ![x] = NoMsg]
          /\ ret' = [ret EXCEPT ![x] = "none"]
          /\ UNCHANGED <<msg, session, existingPlayers, nearby, sessionsToRemove>>
  /\ UNCHANGED <<envVars, stateVars, sessVars, gridVars, playerVars, histVars, fanVars, lockVars, connVars, genVars, toldVars, readerVars, healthVars>>

\* ------------------------------------------------ handlePlayerMessages exit
\* a duplicate guard that never fires
IsDisconnectedIgnored(p) == FALSE

\* Player.IsDisconnected
IsDisconnected(p) == Disconnected[p]

\* HandleDisconnect up to CloseConnection: the duplicate guard, then
\* session := player.GetSession()
HandleDisconnect(p) ==
  /\ IF IsDisconnected(p)
       THEN Finish(p) /\ UNCHANGED cleanups
       ELSE /\ session' = [session EXCEPT ![p] = PlayerGetSession(p)]
            /\ cleanups' = [cleanups EXCEPT ![p] = @ + 1]
            /\ Goto(p, "hd_2")
            /\ UNCHANGED <<msg, payload, existingPlayers, nearby, ret, sessionsToRemove>>
  /\ UNCHANGED <<frames, sweeps, stateVars, sessVars, gridVars, playerVars, joined, fanVars, lockVars, connVars, genVars, toldVars, readerVars, healthVars>>
  /\ Quiet

\* the reader goroutine reports a read error (deadline passed or peer closed):
\* the select loop returns and the deferred HandleDisconnect runs
ReadError(p) ==
  /\ pc[p] = "loop"
  /\ HandleDisconnect(p)
  /\ UNCHANGED recalls

\* the ticker fires and the ping cannot be written: the select loop returns and
\* the deferred HandleDisconnect runs
PingFailure(p) ==
  /\ pc[p] = "loop"
  /\ HandleDisconnect(p)
  /\ UNCHANGED recalls

\* a further call of HandleDisconnect on a player whose handler has returned
HandleDisconnectAgain(p) ==
  /\ pc[p] = "done"
  /\ recalls < MaxRecalls
  /\ recalls' = recalls + 1
  /\ HandleDisconnect(p)

\* Player.CloseConnection (the closing frame, Conn.Close(), Conn = nil), then
\* Player.MarkDisconnected, which nobody can tell from it once Conn is nil
CloseConnection(p) ==
  /\ pc[p] = "hd_2"
  /\ IF Conn[p] # "nil"
       THEN /\ Deliver({p}, [type |-> CloseMessage], NoSession)
            /\ Conn' = [Conn EXCEPT ![p] = "nil"]
       ELSE Quiet /\ UNCHANGED Conn
  /\ Disconnected' = [Disconnected EXCEPT ![p] = TRUE]
  /\ Goto(p, IF session[p] # NoSession THEN "hd_4" ELSE "hd_lobby")
  /\ UNCHANGED <<msg, session, payload, existingPlayers, nearby, ret, sessionsToRemove, envVars,
                 stateVars, sessVars, gridVars, Username, SessionID, Presence, histVars, fanVars, lockVars, connVars, genVars, toldVars, readerVars, healthVars>>

\* Grid.RemovePlayer
GridRemovePlayer(p) ==
  /\ pc[p] = "hd_4"
  /\ LET s == session[p] IN
       IF p \in DOMAIN playerCells[s]
         THEN /\ cells' = [cells EXCEPT ![s] = CellsWithout(@, playerCells[s][p], p)]
              /\ playerCells' = [playerCells EXCEPT ![s] = [q \in DOMAIN @ \ {p} |-> @[q]]]
         ELSE UNCHANGED gridVars
  /\ Goto(p, "rm_1")
  /\ UNCHANGED <<msg, session, payload, existingPlayers, nearby, ret, sessionsToRemove, envVars,
                 stateVars, sessVars, playerVars, histVars, fanVars, lockVars, connVars, genVars, toldVars, readerVars, healthVars>>
  /\ Quiet

\* RemovePlayer: does the creator leave an idling session
CreatorLeavesIdling(s, p) == IsCreator(s, p) /\ ~IsStarted(s)

\* GameSession.RemovePlayer: IsCreator, IsStarted, the section under s.mu.Lock, and the branch
RemovePlayer(p) ==
  /\ pc[p] = "rm_1"
  /\ LET s == session[p] IN
       /\ Players' = [Players EXCEPT ![s] = @ \ {p}]
       /\ PlayerCount' = [PlayerCount EXCEPT ![s] = CountOf(s, Players[s] \ {p})]
       /\ IF CreatorLeavesIdling(s, p)
            THEN Goto(p, "rs_1") /\ ret' = [ret EXCEPT ![p] = "hd_5"]
            ELSE Goto(p, "rm_2") /\ UNCHANGED ret
  /\ UNCHANGED <<msg, session, payload, existingPlayers, nearby, sessionsToRemove, envVars,
                 stateVars, allocated, CreatorID, Started, gridVars, playerVars, histVars, fanVars, lockVars, connVars, genVars, toldVars, readerVars, healthVars>>
  /\ Quiet

\* RemovePlayer: s.Broadcast(playerLeft)
RemovePlayer_Broadcast(p) ==
  /\ pc[p] = "rm_2"
  /\ Broadcast(session[p], FormatPlayerLeft(p))
  /\ Goto(p, "rm_3")
  /\ UNCHANGED <<msg, session, payload, existingPlayers, nearby, ret, sessionsToRemove, envVars,
                 stateVars, sessVars, gridVars, playerVars, histVars, fanVars, lockVars, connVars, genVars, toldVars, readerVars, healthVars>>

\* RemovePlayer: State.Broadcast(playerLeft)
RemovePlayer_StateBroadcast(p) ==
  /\ pc[p] = "rm_3"
  /\ StateBroadcast(FormatPlayerLeft(p))
  /\ Goto(p, "hd_5")
  /\ UNCHANGED <<msg, session, payload, existingPlayers, nearby, ret, sessionsToRemove, envVars,
                 stateVars, sessVars, gridVars, playerVars, histVars, fanVars, lockVars, connVars, genVars, toldVars, readerVars, healthVars>>

\* HandleDisconnect: the condition under which it removes the session itself
ShouldRemoveSession(s) == IsEmpty(s) /\ IsStarted(s)

\* HandleDisconnect: if session.IsEmpty() && session.IsStarted() { State.RemoveSession }
HandleDisconnect_CleanUp(p) ==
  /\ pc[p] = "hd_5"
  /\ IF ShouldRemoveSession(session[p])
       THEN /\ Goto(p, "rs_1")
            /\ ret' = [ret EXCEPT ![p] = "done"]
            /\ UNCHANGED <<msg, session, payload, existingPlayers, nearby, sessionsToRemove>>
       ELSE Finish(p)
  /\ UNCHANGED <<envVars, stateVars, sessVars, gridVars, playerVars, histVars, fanVars, lockVars, connVars, genVars, toldVars, readerVars, healthVars>>
  /\ Quiet

\* HandleDisconnect: State.RemoveLobbyPlayer for a player without a session
HandleDisconnect_Lobby(p) ==
  /\ pc[p] = "hd_lobby"
  /\ LobbyPlayers' = RemoveLobbyPlayer(p)
  /\ Finish(p)
  /\ UNCHANGED <<envVars, Sessions, sessVars, gridVars, playerVars, histVars, fanVars, lockVars, connVars, genVars, toldVars, readerVars, healthVars>>
  /\ Quiet

\* ------------------------------------------------------------ CleanupLoop
\* one tick: collect the registered sessions that are empty
CleanupLoop_Scan ==
  /\ pc[Sweeper] = "sw_idle"
  /\ sweeps < MaxSweeps
  /\ {s \in Sessions : IsEmpty(s)} # {}
  /\ sweeps' = sweeps + 1
  /\ sessionsToRemove' = {s \in Sessions : IsEmpty(s)}
  /\ Goto(Sweeper, "sw_rm")
  /\ UNCHANGED <<msg, session, payload, existingPlayers, nearby, ret, frames, recalls, stateVars,
                 sessVars, gridVars, playerVars, histVars, fanVars, lockVars, connVars, genVars, toldVars, readerVars, healthVars>>
  /\ Quiet

\* one iteration of the removal loop: State.RemoveSession(sessionID), its locked section
CleanupLoop_Remove ==
  /\ pc[Sweeper] = "sw_rm"
  /\ \E s \in sessionsToRemove :
       /\ sessionsToRemove' = sessionsToRemove \ {s}
       /\ session' = [session EXCEPT ![Sweeper] = s]
       /\ Sessions' = Sessions \ {s}
       /\ ret' = [ret EXCEPT ![Sweeper] = IF sessionsToRemove \ {s} = {} THEN "sw_idle" ELSE "sw_rm"]
       /\ Goto(Sweeper, "sl_list")
  /\ UNCHANGED <<msg, payload, existingPlayers, nearby, envVars, LobbyPlayers, sessVars, gridVars,
                 playerVars, histVars, fanVars, lockVars, connVars, genVars, toldVars, readerVars, healthVars>>
  /\ Quiet

\* ---------------------------------------------------------- specification
Next ==
  \/ \E p \in Player : HandleWebSocket(p)
  \/ \E p \in Player, why \in {"undecodable", "unknown type"} : DiscardFrame(p, why)
  \/ \E p \in Player : handleListSessions(p)
  \/ \E p \in Player : Reply(p)
  \/ \E p \in Player, u \in Usernames : handleCreateSession(p, u)
  \/ \E p \in Player, sid \in SessionIDs, u \in Usernames : handleJoinSession(p, sid, u)
  \/ \E p \in Player, sid \in SessionIDs : handleStartSession(p, sid)
  \/ \E p \in Player : Start(p)
  \/ \E p \in Player : handleStartSession_Broadcast(p)
  \/ \E p \in Player, in \in UpdateInputs : handleUpdate(p, in)
  \/ \E p \in Player : UpdatePlayerPosition(p)
  \/ \E p \in Player : handleUpdate_Nearby(p)
  \/ \E p \in Player : handleUpdate_Broadcast(p)
  \/ \E p \in Player, t \in SoundTypes, pos \in SoundPositions : handleSound(p, t, pos)
  \/ \E p \in Player : handleSound_Broadcast(p)
  \/ \E p \in Player : AddPlayer_Export(p)
  \/ \E p \in Player : AddPlayer_Insert(p)
  \/ \E p \in Player : AddPlayer_RemoveLobbyPlayer(p)
  \/ \E p \in Player : AddPlayer_Notify(p)
  \/ \E p \in Player : AddPlayer_Broadcast(p)
  \/ \E p \in Player : AddPlayer_StateBroadcast(p)
  \/ \E p \in Player : JoinSession_SetSessionID(p)
  \/ \E p \in Player : AddSession_Insert(p)
  \/ \E p \in Player : RemoveSession_Delete(p)
  \/ \E x \in Proc : SessionList_Format(x)
  \/ \E x \in Proc : SessionList_Broadcast(x)
  \/ \E p \in Player : ReadError(p)
  \/ \E p \in Player : PingFailure(p)
  \/ \E p \in Player : HandleDisconnectAgain(p)
  \/ \E p \in Player : CloseConnection(p)
  \/ \E p \in Player : GridRemovePlayer(p)
  \/ \E p \in Player : RemovePlayer(p)
  \/ \E p \in Player : RemovePlayer_Broadcast(p)
  \/ \E p \in Player : RemovePlayer_StateBroadcast(p)
  \/ \E p \in Player : HandleDisconnect_CleanUp(p)
  \/ \E p \in Player : HandleDisconnect_Lobby(p)
  \/ CleanupLoop_Scan
  \/ CleanupLoop_Remove

Spec == Init /\ [][Next]_vars

\* the steps goroutine x takes on its own once the scheduler runs it: everything
\* but the arrival of a frame, a read error, a ping failure and a further call
Internal(x) ==
  \/ /\ x \in Player
     /\ \/ HandleWebSocket(x) \/ Reply(x) \/ Start(x) \/ handleStartSession_Broadcast(x)
        \/ UpdatePlayerPosition(x) \/ handleUpdate_Nearby(x) \/ handleUpdate_Broadcast(x)
        \/ handleSound_Broadcast(x)
        \/ AddPlayer_Export(x) \/ AddPlayer_Insert(x) \/ AddPlayer_RemoveLobbyPlayer(x)
        \/ AddPlayer_Notify(x) \/ AddPlayer_Broadcast(x) \/ AddPlayer_StateBroadcast(x)
        \/ JoinSession_SetSessionID(x) \/ AddSession_Insert(x) \/ RemoveSession_Delete(x)
        \/ CloseConnection(x) \/ GridRemovePlayer(x) \/ RemovePlayer(x)
        \/ RemovePlayer_Broadcast(x) \/ RemovePlayer_StateBroadcast(x)
        \/ HandleDisconnect_CleanUp(x) \/ HandleDisconnect_Lobby(x)
  \/ /\ x = Sweeper
     /\ (CleanupLoop_Scan \/ CleanupLoop_Remove)
  \/ SessionList_Format(x)
  \/ SessionList_Broadcast(x)

\* every goroutine that can take a step of its own is eventually scheduled
FairSpec == Spec /\ \A x \in Proc : WF_vars(Internal(x))

\* ------------------------------------------- one Broadcast, send by send
\* SpecFan follows a single GameSession.Broadcast on session FanSession through
\* its per-recipient goroutines, next to the steps of other goroutines that
\* touch the same connections and the same membership map.
FanSession == 1

\* the transport under Conn takes the bytes ("broken": the peer is gone and the
\* write returns an error)
TransportAccepts(q) == Conn[q] = "open"

FanMessages(b) == {FormatSessionStarted(FanSession), FormatPlaySound(b, "moo", <<10, 0, 10>>)}

InitFan ==
  \E members \in SUBSET Player, conn \in [Player -> {"open", "broken", "nil"}] :
    /\ pc = [x \in Proc |-> IF x = Sweeper THEN "sw_idle"
                            ELSE IF conn[x] # "nil" THEN "loop"
                            ELSE IF x \in members THEN "hd_4" ELSE "done"]
    /\ msg = [x \in Proc |-> NoMsg]
    /\ session = [x \in Proc |-> IF x \in members /\ conn[x] = "nil" THEN FanSession ELSE NoSession]
    /\ payload = [x \in Proc |-> NoMsg]
    /\ existingPlayers = [x \in Proc |-> {}]
    /\ nearby = [x \in Proc |-> {}]
    /\ ret = [x \in Proc |-> "none"]
    /\ sessionsToRemove = {}
    /\ frames = 0
    /\ recalls = 0
    /\ sweeps = 0
    /\ LobbyPlayers = {q \in Player : q \notin members /\ conn[q] # "nil"}
    /\ Sessions = {FanSession}
    /\ allocated = {FanSession}
    /\ CreatorID = [s \in SessionIDs |-> IF s = FanSession THEN 1 ELSE 0]
    /\ Players = [s \in SessionIDs |-> IF s = FanSession THEN members ELSE {}]
    /\ PlayerCount = [s \in SessionIDs |-> IF s = FanSession THEN Cardinality(members) ELSE 0]
    /\ Started = [s \in SessionIDs |-> s = FanSession]
    /\ cells = [s \in SessionIDs |-> EmptyMap]
    /\ playerCells = [s \in SessionIDs |-> EmptyMap]
    /\ Username = [p \in Player |-> ""]
    /\ SessionID = [p \in Player |-> IF p \in members THEN FanSession ELSE NoSession]
    /\ Presence = [p \in Player |-> InitialPresence]
    /\ Conn = conn
    /\ Disconnected = [p \in Player |-> conn[p] = "nil"]
    /\ out = [p \in Player |-> NoWrite]
    /\ joined = [s \in SessionIDs |-> IF s = FanSession THEN members ELSE {}]
    /\ cleanups = [p \in Player |-> IF conn[p] = "nil" THEN 1 ELSE 0]
    /\ fan = NoFan
    /\ fanSent = [q \in Player |-> 0]
    /\ fanFailed = [q \in Player |-> 0]
    /\ fanPhase = "idle"
    /\ lk = [m \in LockIDs |-> FreeLock]
    /\ prog = [x \in Proc |-> << >>]
    /\ ops = 0
    /\ inflight = [q \in Player |-> 0]
    /\ idBuf = << >>
    /\ told = << >>
    /\ reader = [q \in Player |-> "none"]
    /\ health = NoHealth

\* Broadcast: s.mu.RLock(), then one goroutine per entry of s.Players
Fan_Begin(b, m) ==
  /\ fanPhase = "idle"
  /\ pc[b] = "loop"
  /\ fan' = [message |-> m, targets |-> Players[FanSession], pending |-> Players[FanSession]]
  /\ fanPhase' = "running"
  /\ session' = [session EXCEPT ![b] = FanSession]
  /\ payload' = [payload EXCEPT ![b] = m]
  /\ Goto(b, "fan_wait")
  /\ UNCHANGED <<msg, existingPlayers, nearby, ret, sessionsToRemove, envVars, stateVars, sessVars,
                 gridVars, playerVars, histVars, fanSent, fanFailed, lockVars, connVars, genVars, toldVars, readerVars, healthVars>>
  /\ Quiet

\* a send that ends the fan-out when it fails
FanAfterSendAbort(pending, q, ok) == IF ok THEN pending \ {q} ELSE {}

\* the goroutines still to finish after the one for q has called wg.Done()
FanAfterSend(pending, q, ok) == pending \ {q}

\* one goroutine of the fan-out: p.WriteMessage, the error is logged, wg.Done()
Fan_Send(q) ==
  /\ fanPhase = "running"
  /\ q \in fan.pending
  /\ LET ok == WriteSucceeds(q) /\ TransportAccepts(q) IN
       /\ fan' = [fan EXCEPT !.pending = FanAfterSend(fan.pending, q, ok)]
       /\ fanSent' = [fanSent EXCEPT ![q] = IF ok THEN @ + 1 ELSE @]
       /\ fanFailed' = [fanFailed EXCEPT ![q] = IF ok THEN @ ELSE @ + 1]
       /\ out' = [out EXCEPT ![q] = IF ok THEN Written(q, fan.message, FanSession) ELSE @]
  /\ UNCHANGED <<procVars, envVars, stateVars, sessVars, gridVars, playerVars, histVars, fanPhase, lockVars, connVars, genVars, toldVars, readerVars, healthVars>>

\* Broadcast: wg.Wait() returns, the deferred RUnlock runs, Broadcast returns (it has no result)
Fan_Return(b) ==
  /\ fanPhase = "running"
  /\ pc[b] = "fan_wait"
  /\ fan.pending = {}
  /\ fanPhase' = "returned"
  /\ BackToLoop(b)
  /\ UNCHANGED <<envVars, stateVars, sessVars, gridVars, playerVars, out, histVars, fan, fanSent, fanFailed, lockVars, connVars, genVars, toldVars, readerVars, healthVars>>

\* the peer of q goes away: writes to its transport fail from now on
Fan_PeerGone(q) ==
  /\ Conn[q] = "open"
  /\ Conn' = [Conn EXCEPT ![q] = "broken"]
  /\ UNCHANGED <<procVars, envVars, stateVars, sessVars, gridVars, Username, SessionID, Presence,
                 Disconnected, out, histVars, fanVars, lockVars, connVars, genVars, toldVars, readerVars, healthVars>>

\* the supervisor of q leaves its loop: HandleDisconnect up to MarkDisconnected,
\* and RemoveLobbyPlayer when q has no session
Fan_CloseConnection(q) ==
  /\ pc[q] = "loop"
  /\ ~IsDisconnected(q)
  /\ Conn' = [Conn EXCEPT ![q] = "nil"]
  /\ Disconnected' = [Disconnected EXCEPT ![q] = TRUE]
  /\ cleanups' = [cleanups EXCEPT ![q] = @ + 1]
  /\ session' = [session EXCEPT ![q] = PlayerGetSession(q)]
  /\ IF PlayerGetSession(q) # NoSession
       THEN Goto(q, "hd_4") /\ UNCHANGED LobbyPlayers
       ELSE Goto(q, "done") /\ LobbyPlayers' = RemoveLobbyPlayer(q)
  /\ UNCHANGED <<msg, payload, existingPlayers, nearby, ret, sessionsToRemove, envVars, Sessions,
                 sessVars, gridVars, Username, SessionID, Presence, out, joined, fanVars, lockVars, connVars, genVars, toldVars, readerVars, healthVars>>

\* RemovePlayer of a disconnecting member: s.mu.Lock() waits for the read lock of
\* a running Broadcast
Fan_RemovePlayer(q) ==
  /\ pc[q] = "hd_4"
  /\ fanPhase # "running"
  /\ Players' = [Players EXCEPT ![FanSession] = @ \ {q}]
  /\ PlayerCount' = [PlayerCount EXCEPT ![FanSession] = CountOf(FanSession, Players[FanSession] \ {q})]
  /\ Finish(q)
  /\ UNCHANGED <<envVars, stateVars, allocated, CreatorID, Started, gridVars, playerVars, out,
                 histVars, fanVars, lockVars, connVars, genVars, toldVars, readerVars, healthVars>>

\* AddPlayer of a lobby player, through JoinSession: s.mu.Lock() waits for the
\* read lock of a running Broadcast
Fan_AddPlayer(q) ==
  /\ pc[q] = "loop"
  /\ q \notin Players[FanSession]
  /\ fanPhase # "running"
  /\ Players' = [Players EXCEPT ![FanSession] = @ \cup {q}]
  /\ PlayerCount' = [PlayerCount EXCEPT ![FanSession] = CountOf(FanSession, Players[FanSession] \cup {q})]
  /\ joined' = [joined EXCEPT ![FanSession] = @ \cup {q}]
  /\ LobbyPlayers' = RemoveLobbyPlayer(q)
  /\ SessionID' = [SessionID EXCEPT ![q] = FanSession]
  /\ UNCHANGED <<procVars, envVars, Sessions, allocated, CreatorID, Started, gridVars, Username,
                 Presence, Conn, Disconnected, out, cleanups, fanVars, lockVars, connVars, genVars, toldVars, readerVars, healthVars>>

NextFan ==
  \/ \E b \in Player : \E m \in FanMessages(b) : Fan_Begin(b, m)
  \/ \E q \in Player : Fan_Send(q)
  \/ \E b \in Player : Fan_Return(b)
  \/ \E q \in Player : Fan_PeerGone(q)
  \/ \E q \in Player : Fan_CloseConnection(q)
  \/ \E q \in Player : Fan_RemovePlayer(q)
  \/ \E q \in Player : Fan_AddPlayer(q)

SpecFan == InitFan /\ [][NextFan]_vars

\* ================================================================== claims

\* C1: in every state between two critical sections of a session's lock, the
\* PlayerCount of every session equals the number of entries of its Players
\* map, whatever joins (of new and of present members) and leaves came before.
C1_PlayerCountIsSize ==
  \A s \in SessionIDs : PlayerCount[s] = Cardinality(Players[s])

\* a member has just been inserted again into a session another member has left
C1_Witness ==
  \E p \in Player, s \in SessionIDs :
    /\ pc[p] = "add_3"
    /\ session[p] = s
    /\ \E i \in existingPlayers[p] : i.id = p
    /\ joined[s] \ Players[s] # {}
    /\ PlayerCount[s] = 1

\* C2: once the disconnect handler of the creator of a session has returned, a
\* session that is not started is no longer in the Registry (so no later
\* ListSessions shows it), whoever else is a member.
C2_IdleSessionDiesWithCreator ==
  \A s \in Sessions : ~Started[s] => pc[CreatorID[s]] # "done"

\* C3: no step removes a started session from the Registry while its
\* membership is non-empty.
C3_StartedRemovedOnlyEmpty ==
  [][\A s \in Sessions : (s \notin Sessions' /\ Started[s]) => Players[s] = {}]_vars

\* C4: a started session is not in the Registry once the disconnect handler of
\* every player that ever was a member has returned, the last member's included.
C4_LastMemberTakesSession ==
  \A s \in Sessions :
    (Started[s] /\ joined[s] # {}) => \E p \in joined[s] : pc[p] # "done"

\* C5 as stated: no state shows a player both in LobbyPlayers and in the
\* Players of a session.
C5_NeverInBoth ==
  \A p \in Player, s \in SessionIDs : ~(p \in LobbyPlayers /\ p \in Players[s])

\* C5: a player is in LobbyPlayers and in the Players of a session only while
\* its own AddPlayer call is between the insertion into Players and the call of
\* RemoveLobbyPlayer; from that call on it is not in the lobby map.
C5_InBothOnlyInsideAddPlayer ==
  \A p \in Player, s \in SessionIDs :
    (p \in LobbyPlayers /\ p \in Players[s]) => (pc[p] = "add_3" /\ session[p] = s)

\* a join has completed: the player is a member, is back in its loop and is out of the lobby
C5_Witness ==
  \E p \in Player, s \in SessionIDs :
    /\ pc[p] = "loop"
    /\ SessionID[p] = s
    /\ p \in Players[s]
    /\ p \notin LobbyPlayers

\* C6: a playerUpdate, playSound or sessionStarted written by the fan-out of
\* session S reaches no player whose SessionID names another session (a player
\* that is only in the lobby is a member of no session and so in no fan-out).
C6_NoCrossSessionDelivery ==
  \A q \in Player :
    out[q].msg.type \in {PlayerUpdated, PlaySound, SessionStarted}
      => out[q].rsid \in {out[q].from, NoSession}

\* C7: no step resets a Disconnected flag, and a further call of
\* HandleDisconnect on a player whose handler has returned changes nothing of
\* the Registry, the sessions, the grids or the players, moves no goroutine and
\* writes to no connection.
C7_DisconnectIdempotent ==
  [][ /\ \A p \in Player : Disconnected[p] => Disconnected'[p]
      /\ recalls' # recalls =>
           /\ UNCHANGED <<pc, stateVars, sessVars, gridVars, playerVars, histVars>>
           /\ out' = [q \in Player |-> NoWrite] ]_vars

\* HandleDisconnect has been called again on a player that had left a session
C7_Witness ==
  /\ recalls = 1
  /\ \E p \in Player, s \in SessionIDs :
       pc[p] = "done" /\ Disconnected[p] /\ cleanups[p] = 1 /\ p \in joined[s]

C9_EventuallyGone ==
  \A p \in Player :
    (pc[p] = "hd_2") ~>
      (pc[p] = "done" /\ p \notin LobbyPlayers /\ \A s \in Sessions : p \notin Players[s])

\* C10: a Broadcast ranges over exactly the members at fan-out, and when it has
\* returned every one of them has had exactly one write attempted (nobody else
\* any), no send is pending, and every member whose own connection works has
\* received the message, whatever happened to the writes to the others.
C10_BroadcastFanOut ==
  /\ fanPhase = "running" => fan.targets = Players[FanSession]
  /\ fanPhase = "returned" =>
       /\ fan.pending = {}
       /\ \A q \in Player :
            /\ fanSent[q] + fanFailed[q] = (IF q \in fan.targets THEN 1 ELSE 0)
            /\ (q \in fan.targets /\ WriteSucceeds(q) /\ TransportAccepts(q))
                 => (fanSent[q] = 1 /\ out[q].msg = fan.message)

\* a Broadcast has returned after one write failed and another went through
C10_Witness ==
  /\ fanPhase = "returned"
  /\ \E q1, q2 \in fan.targets : fanFailed[q1] = 1 /\ fanSent[q2] = 1

\* ------------------------------------------------ the locking of the handlers
\* SpecLocks runs every handler as the sequence of mutex operations its code
\* performs, against mutexes with the semantics of sync.RWMutex (a writer that
\* waits keeps new readers out) and sync.Mutex.  The maps are fixed during a
\* behaviour and drawn by InitLocks; what a handler finds in them is an input.
StateMu == <<"state", 0>>
SessMu(s) == <<"sess", s>>
GridMu(s) == <<"grid", s>>
PlayerMu(p) == <<"player", p>>
WriteMu(p) == <<"write", p>>

Ins(op, m) == [op |-> op, m |-> m, pending |-> {}, holding |-> {}]

\* wg.Add / go func / wg.Wait: one goroutine per target, each calling WriteMessage
FanOut(targets) == [op |-> "Fan", m |-> StateMu, pending |-> targets, holding |-> {}]

\* mu.Lock() ... mu.Unlock() and mu.RLock() ... mu.RUnlock() around code that takes no lock
Locked(m) == <<Ins("Lock", m), Ins("Unlock", m)>>
RLocked(m) == <<Ins("RLock", m), Ins("RUnlock", m)>>

RECURSIVE ForEachRLocked(_, _)
\* a loop over a map whose body read-locks the mutex of each entry in turn
ForEachRLocked(kind, S) ==
  IF S = {} THEN << >>
  ELSE LET x == CHOOSE y \in S : \A z \in S : y <= z
       IN RLocked(<<kind, x>>) \o ForEachRLocked(kind, S \ {x})

\* Player.WriteMessage: writeMu held over the transport write
LkWriteMessage(q) == Locked(WriteMu(q))

\* GameState.ListSessions: State.mu read-locked over session.ExportInfo of every session
LkListSessions ==
  <<Ins("RLock", StateMu)>> \o ForEachRLocked("sess", Sessions) \o <<Ins("RUnlock", StateMu)>>

\* GameState.Broadcast: State.mu read-locked until every send has returned
LkStateBroadcast == <<Ins("RLock", StateMu), FanOut(LobbyPlayers), Ins("RUnlock", StateMu)>>

\* GameSession.Broadcast: the recipient count, then s.mu read-locked until every send has returned
LkBroadcast(s) ==
  RLocked(SessMu(s)) \o <<Ins("RLock", SessMu(s)), FanOut(Players[s]), Ins("RUnlock", SessMu(s))>>

\* GameSession.BroadcastToPlayers
LkBroadcastToPlayers(s, ids) ==
  <<Ins("RLock", SessMu(s)), FanOut(ids \cap Players[s]), Ins("RUnlock", SessMu(s))>>

\* GameState.GetSession
LkGetSession == RLocked(StateMu)

\* Player.GetSession: the SessionID under p.mu, then State.GetSession when it is set
LkPlayerGetSession(p, s) ==
  RLocked(PlayerMu(p)) \o (IF s # NoSession THEN LkGetSession ELSE << >>)

\* GameSession.ExportPlayerInfos: s.mu read-locked over player.ExportInfo of every member
LkExportPlayerInfos(s) ==
  <<Ins("RLock", SessMu(s))>> \o ForEachRLocked("player", Players[s]) \o <<Ins("RUnlock", SessMu(s))>>

\* State.RemoveLobbyPlayer called while s.mu is still write-locked
LkAddPlayerNested(s, p, written) ==
  LkExportPlayerInfos(s)
    \o <<Ins("Lock", SessMu(s))>> \o Locked(StateMu) \o <<Ins("Unlock", SessMu(s))>>
    \o LkWriteMessage(p)
    \o (IF written THEN RLocked(PlayerMu(p)) \o LkBroadcast(s) \o LkStateBroadcast ELSE << >>)

\* GameSession.AddPlayer
LkAddPlayer(s, p, written) ==
  LkExportPlayerInfos(s)
    \o Locked(SessMu(s)) \o Locked(StateMu)
    \o LkWriteMessage(p)
    \o (IF written THEN RLocked(PlayerMu(p)) \o LkBroadcast(s) \o LkStateBroadcast ELSE << >>)

\* Player.JoinSession
LkJoinSession(s, p, written) == LkAddPlayer(s, p, written) \o Locked(PlayerMu(p))

\* GameState.AddSession and GameState.RemoveSession
LkChangeSessions == Locked(StateMu) \o LkListSessions \o LkStateBroadcast

\* GameSession.RemovePlayer
LkRemovePlayer(s, creatorIdle) ==
  RLocked(SessMu(s)) \o RLocked(SessMu(s)) \o Locked(SessMu(s))
    \o (IF creatorIdle THEN LkChangeSessions ELSE LkBroadcast(s) \o LkStateBroadcast)

LkHandleListSessions(p) == LkListSessions \o LkWriteMessage(p)

LkHandleCreateSession(p, s, written) ==
  Locked(PlayerMu(p)) \o LkJoinSession(s, p, written) \o LkChangeSessions

LkHandleJoinSession(p, s, found, written) ==
  LkGetSession
    \o (IF found THEN Locked(PlayerMu(p)) \o LkJoinSession(s, p, written) ELSE LkWriteMessage(p))

LkHandleStartSession(p, s, found, creator) ==
  LkGetSession
    \o (IF ~found THEN LkWriteMessage(p)
        ELSE RLocked(SessMu(s))
               \o (IF creator THEN Locked(SessMu(s)) \o LkBroadcast(s) ELSE LkWriteMessage(p)))

LkHandleUpdate(p, s, ids) ==
  Locked(PlayerMu(p)) \o LkPlayerGetSession(p, s)
    \o (IF s # NoSession
          THEN Locked(GridMu(s)) \o RLocked(GridMu(s)) \o LkBroadcastToPlayers(s, ids)
          ELSE << >>)

LkHandleSound(p, s) ==
  LkPlayerGetSession(p, s) \o (IF s # NoSession THEN LkBroadcast(s) ELSE << >>)

LkHandleDisconnect(p, s, creatorIdle, emptyStarted) ==
  RLocked(PlayerMu(p)) \o LkPlayerGetSession(p, s) \o Locked(WriteMu(p)) \o Locked(PlayerMu(p))
    \o (IF s # NoSession
          THEN Locked(GridMu(s)) \o LkRemovePlayer(s, creatorIdle) \o RLocked(SessMu(s))
                 \o (IF emptyStarted THEN RLocked(SessMu(s)) \o LkChangeSessions ELSE << >>)
          ELSE Locked(StateMu))

\* CleanupLoop: the scan, then RemoveSession when the scan found an empty session
LkCleanupLoop(found) ==
  <<Ins("RLock", StateMu)>> \o ForEachRLocked("sess", Sessions) \o <<Ins("RUnlock", StateMu)>>
    \o (IF found THEN LkChangeSessions ELSE << >>)

MaxOps == 2

Readers(m) == {x \in Proc : lk[m].r[x] > 0}

Cur(x) == prog[x][1]

Pop(x) == prog' = [prog EXCEPT ![x] = Tail(@)]

OtherVars ==
  <<procVars, envVars, stateVars, sessVars, gridVars, playerVars, out, histVars, fanVars, connVars, genVars, toldVars, readerVars, healthVars>>

\* the first session holds every player and the others are empty, so that a
\* handler meets a session with members and one without in every behaviour
InitLocks ==
  \E lobby \in SUBSET Player :
    /\ pc = [x \in Proc |-> IF x = Sweeper THEN "sw_idle" ELSE "loop"]
    /\ msg = [x \in Proc |-> NoMsg]
    /\ session = [x \in Proc |-> NoSession]
    /\ payload = [x \in Proc |-> NoMsg]
    /\ existingPlayers = [x \in Proc |-> {}]
    /\ nearby = [x \in Proc |-> {}]
    /\ ret = [x \in Proc |-> "none"]
    /\ sessionsToRemove = {}
    /\ frames = 0
    /\ recalls = 0
    /\ sweeps = 0
    /\ LobbyPlayers = lobby
    /\ Sessions = SessionIDs
    /\ allocated = SessionIDs
    /\ CreatorID = [s \in SessionIDs |-> 1]
    /\ Players = [s \in SessionIDs |-> IF s = 1 THEN Player ELSE {}]
    /\ PlayerCount = [s \in SessionIDs |-> IF s = 1 THEN NumPlayers ELSE 0]
    /\ Started = [s \in SessionIDs |-> FALSE]
    /\ cells = [s \in SessionIDs |-> EmptyMap]
    /\ playerCells = [s \in SessionIDs |-> EmptyMap]
    /\ Username = [p \in Player |-> ""]
    /\ SessionID = [p \in Player |-> 1]
    /\ Presence = [p \in Player |-> InitialPresence]
    /\ Conn = [p \in Player |-> "open"]
    /\ Disconnected = [p \in Player |-> FALSE]
    /\ out = [p \in Player |-> NoWrite]
    /\ joined = [s \in SessionIDs |-> IF s = 1 THEN Player ELSE {}]
    /\ cleanups = [p \in Player |-> 0]
    /\ fan = NoFan
    /\ fanSent = [q \in Player |-> 0]
    /\ fanFailed = [q \in Player |-> 0]
    /\ fanPhase = "idle"
    /\ lk = [m \in LockIDs |-> FreeLock]
    /\ prog = [x \in Proc |-> << >>]
    /\ ops = 0
    /\ inflight = [q \in Player |-> 0]
    /\ idBuf = << >>
    /\ told = << >>
    /\ reader = [q \in Player |-> "none"]
    /\ health = NoHealth

\* a goroutine enters a handler: the mutex operations of its code lie ahead of it
Lk_Begin(x, program) ==
  /\ prog[x] = << >>
  /\ ops < MaxOps
  /\ program # << >>
  /\ prog' = [prog EXCEPT ![x] = program]
  /\ ops' = ops + 1
  /\ UNCHANGED <<lk, OtherVars>>

\* RWMutex.Lock, Mutex.Lock: the writer that got past the other writers keeps
\* new readers out, and has the mutex at once when no reader holds it
Lk_Lock(x) ==
  /\ prog[x] # << >>
  /\ Cur(x).op = "Lock"
  /\ x \notin lk[Cur(x).m].ww
  /\ lk[Cur(x).m].w = Nobody
  /\ lk[Cur(x).m].ww = {}
  /\ IF Readers(Cur(x).m) = {}
       THEN /\ lk' = [lk EXCEPT ![Cur(x).m].w = x]
            /\ Pop(x)
       ELSE /\ lk' = [lk EXCEPT ![Cur(x).m].ww = {x}]
            /\ UNCHANGED prog
  /\ UNCHANGED <<ops, OtherVars>>

\* RWMutex.Lock: the waiting writer goes on when the last reader has left
Lk_LockAfterReaders(x) ==
  /\ prog[x] # << >>
  /\ Cur(x).op = "Lock"
  /\ x \in lk[Cur(x).m].ww
  /\ Readers(Cur(x).m) = {}
  /\ lk' = [lk EXCEPT ![Cur(x).m].w = x, ![Cur(x).m].ww = {}]
  /\ Pop(x)
  /\ UNCHANGED <<ops, OtherVars>>

\* RWMutex.RLock: blocks while a writer holds the mutex or waits for it
Lk_RLock(x) ==
  /\ prog[x] # << >>
  /\ Cur(x).op = "RLock"
  /\ lk[Cur(x).m].w = Nobody
  /\ lk[Cur(x).m].ww = {}
  /\ lk' = [lk EXCEPT ![Cur(x).m].r[x] = @ + 1]
  /\ Pop(x)
  /\ UNCHANGED <<ops, OtherVars>>

Lk_Unlock(x) ==
  /\ prog[x] # << >>
  /\ Cur(x).op = "Unlock"
  /\ lk[Cur(x).m].w = x
  /\ lk' = [lk EXCEPT ![Cur(x).m].w = Nobody]
  /\ Pop(x)
  /\ UNCHANGED <<ops, OtherVars>>

Lk_RUnlock(x) ==
  /\ prog[x] # << >>
  /\ Cur(x).op = "RUnlock"
  /\ lk[Cur(x).m].r[x] > 0
  /\ lk' = [lk EXCEPT ![Cur(x).m].r[x] = @ - 1]
  /\ Pop(x)
  /\ UNCHANGED <<ops, OtherVars>>

\* go func(p) { p.WriteMessage(...) }: the goroutine for recipient q takes q's writeMu
Lk_FanLock(x, q) ==
  /\ prog[x] # << >>
  /\ Cur(x).op = "Fan"
  /\ q \in Cur(x).pending \ Cur(x).holding
  /\ lk[WriteMu(q)].w = Nobody
  /\ lk' = [lk EXCEPT ![WriteMu(q)].w = x]
  /\ prog' = [prog EXCEPT ![x][1].holding = @ \cup {q}]
  /\ UNCHANGED <<ops, OtherVars>>

\* defer p.writeMu.Unlock(); defer wg.Done()
Lk_FanUnlock(x, q) ==
  /\ prog[x] # << >>
  /\ Cur(x).op = "Fan"
  /\ q \in Cur(x).holding
  /\ lk' = [lk EXCEPT ![WriteMu(q)].w = Nobody]
  /\ prog' = [prog EXCEPT ![x][1].holding = @ \ {q}, ![x][1].pending = @ \ {q}]
  /\ UNCHANGED <<ops, OtherVars>>

\* wg.Wait()
Lk_FanWait(x) ==
  /\ prog[x] # << >>
  /\ Cur(x).op = "Fan"
  /\ Cur(x).pending = {}
  /\ Pop(x)
  /\ UNCHANGED <<lk, ops, OtherVars>>

\* the steps goroutine x can take inside its handler
LkStep(x) ==
  \/ Lk_Lock(x)
  \/ Lk_LockAfterReaders(x)
  \/ Lk_RLock(x)
  \/ Lk_Unlock(x)
  \/ Lk_RUnlock(x)
  \/ \E q \in Player : Lk_FanLock(x, q)
  \/ \E q \in Player : Lk_FanUnlock(x, q)
  \/ Lk_FanWait(x)

SessionOrNone == SessionIDs \cup {NoSession}

NextLocks ==
  \/ \E p \in Player : Lk_Begin(p, LkHandleListSessions(p))
  \/ \E p \in Player, s \in SessionIDs, written \in BOOLEAN :
       Lk_Begin(p, LkHandleCreateSession(p, s, written))
  \/ \E p \in Player, s \in SessionIDs, found \in BOOLEAN, written \in BOOLEAN :
       Lk_Begin(p, LkHandleJoinSession(p, s, found, written))
  \/ \E p \in Player, s \in SessionIDs, found \in BOOLEAN, creator \in BOOLEAN :
       Lk_Begin(p, LkHandleStartSession(p, s, found, creator))
  \/ \E p \in Player, s \in SessionOrNone, ids \in SUBSET Player :
       Lk_Begin(p, LkHandleUpdate(p, s, ids))
  \/ \E p \in Player, s \in SessionOrNone : Lk_Begin(p, LkHandleSound(p, s))
  \/ \E p \in Player, s \in SessionOrNone, creatorIdle \in BOOLEAN, emptyStarted \in BOOLEAN :
       Lk_Begin(p, LkHandleDisconnect(p, s, creatorIdle, emptyStarted))
  \/ \E found \in BOOLEAN : Lk_Begin(Sweeper, LkCleanupLoop(found))
  \/ \E x \in Proc : Lk_Lock(x)
  \/ \E x \in Proc : Lk_LockAfterReaders(x)
  \/ \E x \in Proc : Lk_RLock(x)
  \/ \E x \in Proc : Lk_Unlock(x)
  \/ \E x \in Proc : Lk_RUnlock(x)
  \/ \E x \in Proc, q \in Player : Lk_FanLock(x, q)
  \/ \E x \in Proc, q \in Player : Lk_FanUnlock(x, q)
  \/ \E x \in Proc : Lk_FanWait(x)

SpecLocks == InitLocks /\ [][NextLocks]_vars

\* C11: whenever some goroutine is inside a handler, at least one goroutine
\* that is inside a handler can take its next step: no set of handlers and
\* broadcasts ever waits on each other's mutexes in a cycle.
\* A goroutine outside a handler holds no mutex.
C11_NoDeadlock ==
  /\ (\E x \in Proc : prog[x] # << >>) => \E x \in Proc : prog[x] # << >> /\ ENABLED LkStep(x)
  /\ \A x \in Proc : prog[x] = << >> =>
        \A m \in LockIDs : lk[m].w # x /\ lk[m].r[x] = 0 /\ x \notin lk[m].ww

\* C11 witness: a writer waits for State.mu while the reader it waits for
\* holds a session's mutex inside State.mu
C11_Witness ==
  /\ lk[StateMu].ww # {}
  /\ \E y \in Proc : \E s \in SessionIDs : lk[StateMu].r[y] > 0 /\ lk[SessMu(s)].r[y] > 0

\* a payload that announces the join of player p
AnnouncesJoinOf(m, p) == m.type = PlayerJoined /\ m.player.id = p

\* C12: a step writes to a player the playerJoined announcing that player's own
\* join only as the broadcast step of the player's own AddPlayer, and AddPlayer
\* reaches that step only by the step that writes the sessionJoined of the same
\* session to the player: sessionJoined is written first.
C12_SessionJoinedFirst ==
  [][\A p \in Player :
       /\ AnnouncesJoinOf(out'[p].msg, p) => pc[p] = "add_5" /\ pc'[p] = "add_6"
       /\ (pc'[p] = "add_5" /\ pc[p] # "add_5") =>
            /\ pc[p] = "add_4"
            /\ out'[p].msg.type = SessionJoined
            /\ out'[p].msg.playerId = p
            /\ out'[p].msg.sessionId = session[p]]_vars

\* C12 witness: a joiner has just been written the playerJoined of its own join
C12_Witness ==
  \E p \in Player : pc[p] = "add_6" /\ AnnouncesJoinOf(out[p].msg, p)

\* ------------------------------------------------- joins of a session left behind
\* SpecJoin starts the server where a third connection has created and started
\* session 1 and has gone again (its RemovePlayer is done, its session clean-up
\* is not): the session is registered and has no member that is a Player
\* of the model, so both players can join it from the lobby.
OpenSession == 1

InitJoin ==
  /\ pc = [x \in Proc |-> IF x = Sweeper THEN "sw_idle" ELSE IF x = 1 THEN "loop" ELSE "new"]
  /\ msg = [x \in Proc |-> NoMsg]
  /\ session = [x \in Proc |-> NoSession]
  /\ payload = [x \in Proc |-> NoMsg]
  /\ existingPlayers = [x \in Proc |-> {}]
  /\ nearby = [x \in Proc |-> {}]
  /\ ret = [x \in Proc |-> "none"]
  /\ sessionsToRemove = {}
  /\ frames = 0
  /\ recalls = 0
  /\ sweeps = 0
  /\ LobbyPlayers = {1}
  /\ Sessions = {OpenSession}
  /\ allocated = {OpenSession}
  /\ CreatorID = [s \in SessionIDs |-> 0]
  /\ Players = [s \in SessionIDs |-> {}]
  /\ PlayerCount = [s \in SessionIDs |-> 0]
  /\ Started = [s \in SessionIDs |-> s = OpenSession]
  /\ cells = [s \in SessionIDs |-> EmptyMap]
  /\ playerCells = [s \in SessionIDs |-> EmptyMap]
  /\ Username = [p \in Player |-> ""]
  /\ SessionID = [p \in Player |-> NoSession]
  /\ Presence = [p \in Player |-> InitialPresence]
  /\ Conn = [p \in Player |-> "open"]
  /\ Disconnected = [p \in Player |-> FALSE]
  /\ out = [p \in Player |-> NoWrite]
  /\ joined = [s \in SessionIDs |-> {}]
  /\ cleanups = [p \in Player |-> 0]
  /\ fan = NoFan
  /\ fanSent = [q \in Player |-> 0]
  /\ fanFailed = [q \in Player |-> 0]
  /\ fanPhase = "idle"
  /\ lk = [m \in LockIDs |-> FreeLock]
  /\ prog = [x \in Proc |-> << >>]
  /\ ops = 0
  /\ inflight = [q \in Player |-> 0]
  /\ idBuf = << >>
  /\ told = [q \in Player |-> {}]
  /\ reader = [q \in Player |-> "none"]
  /\ health = NoHealth

SpecJoin == InitJoin /\ [][Next]_vars

\* the ids of the players of a list of exported player infos
IdsOf(infos) == {i.id : i \in infos}

\* C13: when player p, joining a registered session by ID from the lobby, is
\* inserted into the session's Players, the players list AddPlayer has taken
\* for p's sessionJoined names every other member of the session at that
\* moment (every player that was a member before p) and does not name p.
C13_ListHoldsPriorMembers ==
  [][\A p \in Player :
       (pc[p] = "add_2" /\ pc'[p] = "add_3" /\ msg[p].type = JoinSession /\ SessionID[p] = NoSession) =>
          /\ Players[session[p]] \ {p} \subseteq IdsOf(existingPlayers[p])
          /\ p \notin IdsOf(existingPlayers[p])]_vars

\* C14: once the dispatcher has taken a createSession message of a lobby player
\* whose connection stays up, that player is eventually written a sessionCreated
\* message for the new session.
C14_CreatorIsSentSessionCreated ==
  \A p \in Player :
    (pc[p] = "add_1" /\ msg[p].type = CreateSession /\ p \in LobbyPlayers) ~>
      (\/ \E s \in SessionIDs : out[p].msg = FormatCreateSession(s)
       \/ ~WriteSucceeds(p))

\* C15: a startSession from a player that is not the creator of the registered
\* session it names goes to the error reply, and the handler up to and with that
\* reply leaves Started as it is and writes one error, to the sender only; a
\* startSession from the creator sets Started of the session and then writes
\* sessionStarted to every member whose connection takes it, the creator among
\* them, and to nobody else.
C15_StartSession ==
  [][\A p \in Player :
       /\ (pc[p] = "loop" /\ msg'[p].type = StartSession /\ msg'[p].sessionId \in Sessions) =>
            /\ Started' = Started
            /\ \A q \in Player : out'[q] = NoWrite
            /\ IF CreatorID[msg'[p].sessionId] = p
                 THEN pc'[p] = "start_2" /\ session'[p] = msg'[p].sessionId
                 ELSE pc'[p] = "reply" /\ payload'[p] = FormatNotCreator
       /\ (pc[p] = "reply" /\ pc'[p] # "reply" /\ msg[p].type = StartSession) =>
            /\ Started' = Started
            /\ payload[p].type = ErrorMessage
            /\ \A q \in Player : out'[q] # NoWrite => q = p /\ out'[q].msg = payload[p]
            /\ WriteSucceeds(p) => out'[p] # NoWrite
       /\ (pc[p] = "start_2" /\ pc'[p] # "start_2") => Started'[session[p]]
       /\ (pc[p] = "start_3" /\ pc'[p] # "start_3") =>
            /\ Started[session[p]]
            /\ p \in Players[session[p]]
            /\ \A q \in Player :
                 IF q \in Players[session[p]] /\ WriteSucceeds(q)
                   THEN out'[q].msg = FormatSessionStarted(session[p])
                   ELSE out'[q] = NoWrite]_vars

\* C15 witness: the creator and another member have just been written sessionStarted
C15_Witness ==
  \E p, q \in Player :
    /\ p # q
    /\ out[p].msg.type = SessionStarted
    /\ out[q].msg.type = SessionStarted
    /\ CreatorID[out[p].msg.sessionId] = p
    /\ Started[out[p].msg.sessionId]

\* C16: a joinSession naming an ID that is not registered goes to the error
\* reply; the handler, up to and with that reply, writes one "session not
\* found" error, to the sender and to nobody else, and leaves every Username
\* and SessionID, the lobby map and the Players of every session as they are.
C16_JoinUnknownSession ==
  [][\A p \in Player :
       /\ (pc[p] = "loop" /\ msg'[p].type = JoinSession /\ msg'[p].sessionId \notin Sessions) =>
            /\ pc'[p] = "reply"
            /\ payload'[p] = FormatSessionNotFound
            /\ \A q \in Player : out'[q] = NoWrite
            /\ UNCHANGED <<Username, SessionID, LobbyPlayers, Players>>
       /\ (pc[p] = "reply" /\ pc'[p] # "reply" /\ msg[p].type = JoinSession) =>
            /\ payload[p] = FormatSessionNotFound
            /\ \A q \in Player : out'[q] # NoWrite => q = p /\ out'[q].msg = payload[p]
            /\ WriteSucceeds(p) => out'[p] # NoWrite
            /\ pc'[p] = "loop"
            /\ UNCHANGED <<Username, SessionID, LobbyPlayers, Players>>]_vars

\* C16 witness: the handler of a joinSession for an unregistered ID is about to reply
C16_Witness ==
  \E p \in Player :
    /\ pc[p] = "reply"
    /\ msg[p].type = JoinSession
    /\ msg[p].sessionId \notin Sessions
    /\ WriteSucceeds(p)

\* C17: when RemovePlayer has taken leaver p out of session s and p is not the
\* creator of an unstarted s, the broadcast that follows writes playerLeft with
\* p's id to every remaining member whose connection takes it and nothing to p,
\* no connection is written that playerLeft a second time by the step after it,
\* and s stays registered over these steps while it has a member; when p is the
\* creator of an unstarted s, RemovePlayer goes on to RemoveSession and no step
\* ever writes a playerLeft with p's id.
C17_PlayerLeftOnce ==
  [][\A p \in Player :
       /\ (pc[p] = "rm_1" /\ pc'[p] # "rm_1") =>
            IF CreatorID[session[p]] = p /\ ~Started[session[p]]
              THEN pc'[p] = "rs_1"
              ELSE pc'[p] = "rm_2" /\ p \notin Players'[session[p]]
       /\ (pc[p] = "rm_2" /\ pc'[p] # "rm_2") =>
            /\ \A q \in Players[session[p]] :
                 WriteSucceeds(q) => out'[q].msg = FormatPlayerLeft(p)
            /\ out'[p] = NoWrite
            /\ p \notin Players[session[p]]
       /\ (pc[p] \in {"rm_2", "rm_3"} /\ session[p] \in Sessions /\ Players[session[p]] # {}) =>
            session[p] \in Sessions'
       /\ \A q \in Player :
            /\ out'[q].msg = FormatPlayerLeft(p) => pc[p] \in {"rm_2", "rm_3"}
            /\ out[q].msg = FormatPlayerLeft(p) => out'[q].msg # FormatPlayerLeft(p)]_vars

\* ------------------------------------------------------ a session in play
\* SpecGrid starts the server where player 1 has created and started session
\* PlaySession and every other player has joined it, nobody having reported a
\* position yet; from there the members send updates and sounds and drop out.
PlaySession == 1

GridInputs ==
  { [position |-> <<0, 0, 0>>, rotation |-> 0, modelRotation |-> 0, animation |-> "idle"],
    [position |-> <<10, 0, 10>>, rotation |-> 1, modelRotation |-> 1, animation |-> "walk"],
    [position |-> <<500, 0, 500>>, rotation |-> 2, modelRotation |-> 2, animation |-> "run"] }

InitGrid ==
  /\ pc = [x \in Proc |-> IF x = Sweeper THEN "sw_idle" ELSE "loop"]
  /\ msg = [x \in Proc |-> NoMsg]
  /\ session = [x \in Proc |-> NoSession]
  /\ payload = [x \in Proc |-> NoMsg]
  /\ existingPlayers = [x \in Proc |-> {}]
  /\ nearby = [x \in Proc |-> {}]
  /\ ret = [x \in Proc |-> "none"]
  /\ sessionsToRemove = {}
  /\ frames = 0
  /\ recalls = 0
  /\ sweeps = 0
  /\ LobbyPlayers = {}
  /\ Sessions = {PlaySession}
  /\ allocated = {PlaySession}
  /\ CreatorID = [s \in SessionIDs |-> IF s = PlaySession THEN 1 ELSE 0]
  /\ Players = [s \in SessionIDs |-> IF s = PlaySession THEN Player ELSE {}]
  /\ PlayerCount = [s \in SessionIDs |-> IF s = PlaySession THEN NumPlayers ELSE 0]
  /\ Started = [s \in SessionIDs |-> s = PlaySession]
  /\ cells = [s \in SessionIDs |-> EmptyMap]
  /\ playerCells = [s \in SessionIDs |-> EmptyMap]
  /\ Username = [p \in Player |-> "ann"]
  /\ SessionID = [p \in Player |-> PlaySession]
  /\ Presence = [p \in Player |-> InitialPresence]
  /\ Conn = [p \in Player |-> "open"]
  /\ Disconnected = [p \in Player |-> FALSE]
  /\ out = [p \in Player |-> NoWrite]
  /\ joined = [s \in SessionIDs |-> IF s = PlaySession THEN Player ELSE {}]
  /\ cleanups = [p \in Player |-> 0]
  /\ fan = NoFan
  /\ fanSent = [q \in Player |-> 0]
  /\ fanFailed = [q \in Player |-> 0]
  /\ fanPhase = "idle"
  /\ lk = [m \in LockIDs |-> FreeLock]
  /\ prog = [x \in Proc |-> << >>]
  /\ ops = 0
  /\ inflight = [q \in Player |-> 0]
  /\ idBuf = << >>
  /\ told = << >>
  /\ reader = [q \in Player |-> "none"]
  /\ health = NoHealth

NextGrid ==
  \/ \E p \in Player, in \in GridInputs : handleUpdate(p, in)
  \/ \E p \in Player : UpdatePlayerPosition(p)
  \/ \E p \in Player : handleUpdate_Nearby(p)
  \/ \E p \in Player : handleUpdate_Broadcast(p)
  \/ \E p \in Player, t \in SoundTypes, pos \in SoundPositions : handleSound(p, t, pos)
  \/ \E p \in Player : handleSound_Broadcast(p)
  \/ \E p \in Player : ReadError(p)
  \/ \E p \in Player : CloseConnection(p)
  \/ \E p \in Player : GridRemovePlayer(p)
  \/ \E p \in Player : RemovePlayer(p)
  \/ \E p \in Player : RemovePlayer_Broadcast(p)
  \/ \E p \in Player : RemovePlayer_StateBroadcast(p)
  \/ \E p \in Player : HandleDisconnect_CleanUp(p)
  \/ \E p \in Player : RemoveSession_Delete(p)
  \/ \E x \in Proc : SessionList_Format(x)
  \/ \E x \in Proc : SessionList_Broadcast(x)

SpecGrid == InitGrid /\ [][NextGrid]_vars

\* the players the grid of session s tracks within cellRadius cells of player
\* p's cell on both axes, p left out, read from the player-to-cell map
TrackedAround(s, p) ==
  IF p \notin DOMAIN playerCells[s] THEN {}
  ELSE {q \in DOMAIN playerCells[s] \ {p} :
          /\ Abs(playerCells[s][q][1] - playerCells[s][p][1]) <= cellRadius
          /\ Abs(playerCells[s][q][2] - playerCells[s][p][2]) <= cellRadius}

\* C18: the step that takes an update of a session member stores the state of
\* the message as the sender's state; the nearby query returns the players the
\* grid tracks around the sender, never the sender; and the broadcast writes a
\* playerUpdate with the sender's id and the position, rotation, modelRotation
\* and animation of the message to exactly the current members among the
\* players the query returned (whose connections take it), to nobody else.
C18_UpdateReachesNearby ==
  [][\A p \in Player :
       /\ (pc[p] = "loop" /\ msg'[p].type = UpdatePlayer) =>
            /\ Presence'[p] = msg'[p].state
            /\ pc'[p] = "upd_2"
            /\ p \in Players[session'[p]]
       /\ (pc[p] = "upd_3" /\ pc'[p] # "upd_3") =>
            /\ nearby'[p] = TrackedAround(session[p], p)
            /\ p \notin nearby'[p]
       /\ (pc[p] = "upd_4" /\ pc'[p] # "upd_4") =>
            /\ Presence[p] = msg[p].state
            /\ \A q \in Player :
                 IF q \in nearby[p] /\ q \in Players[session[p]] /\ WriteSucceeds(q)
                   THEN out'[q].msg =
                          [type |-> PlayerUpdated, id |-> p,
                           position |-> msg[p].state.position,
                           rotation |-> msg[p].state.rotation,
                           modelRotation |-> msg[p].state.modelRotation,
                           animation |-> msg[p].state.animation]
                   ELSE out'[q] = NoWrite
            /\ out'[p] = NoWrite]_vars

\* C18 witness: a member has just been written the playerUpdate of another member
C18_Witness ==
  \E p, q \in Player :
    /\ p # q
    /\ out[q].msg.type = PlayerUpdated
    /\ out[q].msg.id = p
    /\ out[q].msg.position = Presence[p].position
    /\ out[p] = NoWrite

\* the two placements of the example: far apart, and close together
FarApart(a, b) == {a, b} = {<<0, 0, 0>>, <<500, 0, 500>>}
CloseBy(a, b) == {a, b} = {<<0, 0, 0>>, <<10, 0, 10>>}

\* C19: with 50-unit cells and view distance 100, when member p's update runs
\* its nearby query while another member q is tracked at the position q last
\* reported: if the two positions are (0,0,0) and (500,0,500), in either order,
\* the query does not return q and the broadcast writes nothing to q; if they
\* are (0,0,0) and (10,0,10), in either order, the query returns q and the
\* broadcast writes p's playerUpdate to q (while q's connection takes it).
C19_FarAndNear ==
  [][\A p, q \in Player :
       /\ (/\ p # q
           /\ pc[p] = "upd_3" /\ pc'[p] = "upd_4"
           /\ {p, q} \subseteq Players[session[p]]
           /\ q \in DOMAIN playerCells[session[p]]
           /\ pc[q] # "upd_2") =>
            /\ FarApart(msg[p].state.position, Presence[q].position) => q \notin nearby'[p]
            /\ CloseBy(msg[p].state.position, Presence[q].position) => q \in nearby'[p]
       /\ (p # q /\ pc[p] = "upd_4" /\ pc'[p] # "upd_4") =>
            IF q \in nearby[p] /\ q \in Players[session[p]] /\ WriteSucceeds(q)
              THEN out'[q].msg.type = PlayerUpdated /\ out'[q].msg.id = p
              ELSE out'[q] = NoWrite]_vars

\* C19 witness: player 1, at (0,0,0), has run its query while player 2 was
\* tracked at (500,0,500) and got nobody; player 2, now at (10,0,10), has run
\* its query and got player 1
C19_Witness ==
  /\ pc[1] = "upd_4" /\ msg[1].state.position = <<0, 0, 0>> /\ nearby[1] = {}
  /\ pc[2] = "upd_4" /\ msg[2].state.position = <<10, 0, 10>> /\ nearby[2] = {1}
  /\ getCellKey(<<500, 0, 500>>) = <<10, 10>>
  /\ cellRadius = 2

\* C20: a sound message of a player whose SessionID names a registered session
\* is taken up for that session, of which the emitter is a member, and its
\* broadcast writes one playSound with the emitter's id and the soundType and
\* position of the message to every current member of that session whose
\* connection takes it, tracked by the grid or not, near or far, and to nobody
\* else.
C20_SoundReachesEveryMember ==
  [][\A p \in Player :
       /\ (pc[p] = "loop" /\ msg'[p].type = PlayerSound) =>
            /\ pc'[p] = "snd_2"
            /\ session'[p] = SessionID[p]
            /\ session'[p] \in Sessions
            /\ p \in Players[session'[p]]
       /\ (pc[p] = "snd_2" /\ pc'[p] # "snd_2") =>
            \A q \in Player :
              IF q \in Players[session[p]] /\ WriteSucceeds(q)
                THEN out'[q].msg = [type |-> PlaySound, id |-> p,
                                    soundType |-> msg[p].soundType, position |-> msg[p].position]
                ELSE out'[q] = NoWrite]_vars

\* C20 witness: the playSound of an emitter tracked at (0,0,0) has just been
\* written to the emitter and to a member tracked at (500,0,500)
C20_Witness ==
  \E p, q \in Player :
    /\ out[p].msg.type = PlaySound /\ out[p].msg.id = p
    /\ out[q].msg.type = PlaySound /\ out[q].msg.id = p
    /\ {p, q} \subseteq DOMAIN playerCells[PlaySession]
    /\ playerCells[PlaySession][p] = <<0, 0>>
    /\ playerCells[PlaySession][q] = <<10, 10>>

\* C21: a step that takes a frame and starts no handler (an undecodable frame,
\* a frame of unknown type, an update or a sound of a player whose SessionID
\* names no registered session) writes to no connection, changes nothing of the
\* Registry, the sessions and the grids, and leaves every goroutine where it
\* is, the receiver in its select loop with its connection as it was; and an
\* update or a sound starts a handler only for a player whose SessionID names
\* a registered session.
C21_DroppedFramesChangeNothing ==
  [][/\ (frames' = frames + 1 /\ msg' = msg) =>
          /\ \A q \in Player : out'[q] = NoWrite
          /\ pc' = pc
          /\ UNCHANGED <<stateVars, sessVars, gridVars, Username, SessionID, Conn, Disconnected>>
     /\ \A p \in Player :
          (msg[p] = NoMsg /\ msg'[p].type \in {UpdatePlayer, PlayerSound}) =>
             SessionID[p] \in Sessions]_vars

\* C21 witness: one frame has been taken and nothing else has happened since
\* the players connected
C21_Witness ==
  /\ frames = 1
  /\ \A p \in Player : pc[p] = "loop" /\ out[p] = NoWrite /\ Presence[p] = InitialPresence
  /\ LobbyPlayers = Player
  /\ allocated = {}

\* ------------------------------------------------------------ SpecConn
\* Player.WriteMessage, Player.CloseConnection and the ping of
\* handlePlayerMessages, one step per critical section and per call into the
\* transport. Goroutines are callers: a supervisor pings its own connection
\* while it is in its loop; any goroutine may call WriteMessage (a reply, a
\* child of a broadcast); CloseConnection is called on a player by that
\* player's goroutine, also when it has been called before.
MaxCalls == 3

ConnIdle(x) == pc[x] \in {"loop", "done", "sw_idle"}

Target(x) == msg[x].to

ResultOK == [type |-> "ok"]

ResultError == [type |-> ErrorMessage]

InitConn ==
  /\ pc = [x \in Proc |-> IF x = Sweeper THEN "sw_idle" ELSE "loop"]
  /\ msg = [x \in Proc |-> NoMsg]
  /\ session = [x \in Proc |-> NoSession]
  /\ payload = [x \in Proc |-> NoMsg]
  /\ existingPlayers = [x \in Proc |-> {}]
  /\ nearby = [x \in Proc |-> {}]
  /\ ret = [x \in Proc |-> "none"]
  /\ sessionsToRemove = {}
  /\ frames = 0
  /\ recalls = 0
  /\ sweeps = 0
  /\ LobbyPlayers = Player
  /\ Sessions = {}
  /\ allocated = {}
  /\ CreatorID = [s \in SessionIDs |-> 0]
  /\ Players = [s \in SessionIDs |-> {}]
  /\ PlayerCount = [s \in SessionIDs |-> 0]
  /\ Started = [s \in SessionIDs |-> FALSE]
  /\ cells = [s \in SessionIDs |-> EmptyMap]
  /\ playerCells = [s \in SessionIDs |-> EmptyMap]
  /\ Username = [p \in Player |-> "ann"]
  /\ SessionID = [p \in Player |-> NoSession]
  /\ Presence = [p \in Player |-> InitialPresence]
  /\ Conn = [p \in Player |-> "open"]
  /\ Disconnected = [p \in Player |-> FALSE]
  /\ out = [p \in Player |-> NoWrite]
  /\ joined = [s \in SessionIDs |-> {}]
  /\ cleanups = [p \in Player |-> 0]
  /\ fan = NoFan
  /\ fanSent = [q \in Player |-> 0]
  /\ fanFailed = [q \in Player |-> 0]
  /\ fanPhase = "idle"
  /\ lk = [m \in LockIDs |-> FreeLock]
  /\ prog = [x \in Proc |-> << >>]
  /\ ops = 0
  /\ inflight = [q \in Player |-> 0]
  /\ idBuf = << >>
  /\ told = << >>
  /\ reader = [q \in Player |-> "reading"]
  /\ health = NoHealth

ConnFrame ==
  UNCHANGED <<session, existingPlayers, nearby, sessionsToRemove, envVars, stateVars, sessVars,
              gridVars, Username, SessionID, Presence, joined, fanVars, prog, genVars, toldVars, readerVars, healthVars>>

\* a goroutine calls q.WriteMessage
Conn_CallWriteMessage(x, q) ==
  /\ ConnIdle(x)
  /\ ops < MaxCalls
  /\ msg' = [msg EXCEPT ![x] = [type |-> "WriteMessage", to |-> q]]
  /\ payload' = [payload EXCEPT ![x] = NoMsg]
  /\ ret' = [ret EXCEPT ![x] = pc[x]]
  /\ pc' = [pc EXCEPT ![x] = "wm_lock"]
  /\ ops' = ops + 1
  /\ Quiet
  /\ ConnFrame
  /\ UNCHANGED <<Conn, Disconnected, cleanups, lk, inflight>>

\* the goroutine of q calls q.CloseConnection (HandleDisconnect, or a repeated call)
Conn_CallCloseConnection(q) ==
  /\ ConnIdle(q)
  /\ ops < MaxCalls
  /\ msg' = [msg EXCEPT ![q] = [type |-> "CloseConnection", to |-> q]]
  /\ payload' = [payload EXCEPT ![q] = NoMsg]
  /\ ret' = [ret EXCEPT ![q] = "done"]
  /\ pc' = [pc EXCEPT ![q] = "wm_lock"]
  /\ ops' = ops + 1
  /\ Quiet
  /\ ConnFrame
  /\ UNCHANGED <<Conn, Disconnected, cleanups, lk, inflight>>

\* WriteMessage's test under writeMu; disconnected is what the unsynchronised
\* read of p.Disconnected returned
WriteRefusedByFlag(q, disconnected) == disconnected

WriteRefused(q, disconnected) == Conn[q] = "nil" \/ disconnected

\* p.writeMu.Lock() and the test that follows it under the lock. WriteMessage
\* reads p.Disconnected without p.mu while MarkDisconnected writes it under
\* p.mu: the read returns the current value or the one from before
Conn_Lock(x) ==
  /\ pc[x] = "wm_lock"
  /\ lk[WriteMu(Target(x))].w = Nobody
  /\ lk' = [lk EXCEPT ![WriteMu(Target(x))].w = x]
  /\ IF msg[x].type = "WriteMessage"
       THEN \E disconnected \in {Disconnected[Target(x)], FALSE} :
              IF WriteRefused(Target(x), disconnected)
                THEN /\ payload' = [payload EXCEPT ![x] = ResultError]
                     /\ pc' = [pc EXCEPT ![x] = "wm_unlock"]
                     /\ UNCHANGED inflight
                ELSE /\ pc' = [pc EXCEPT ![x] = "wm_write"]
                     /\ inflight' = [inflight EXCEPT ![Target(x)] = @ + 1]
                     /\ UNCHANGED payload
       ELSE IF Conn[Target(x)] # "nil"
              THEN /\ pc' = [pc EXCEPT ![x] = "cl_write"]
                   /\ inflight' = [inflight EXCEPT ![Target(x)] = @ + 1]
                   /\ UNCHANGED payload
              ELSE /\ pc' = [pc EXCEPT ![x] = "wm_unlock"]
                   /\ UNCHANGED <<inflight, payload>>
  /\ Quiet
  /\ ConnFrame
  /\ UNCHANGED <<msg, ret, Conn, Disconnected, cleanups, ops>>

\* p.Conn.WriteMessage(messageType, data) returns
Conn_Transport(x) ==
  /\ pc[x] = "wm_write"
  /\ inflight' = [inflight EXCEPT ![Target(x)] = @ - 1]
  /\ IF TransportAccepts(Target(x))
       THEN /\ out' = [q \in Player |->
                         IF q = Target(x) THEN Written(q, FormatSessionStarted(FanSession), NoSession)
                         ELSE NoWrite]
            /\ payload' = [payload EXCEPT ![x] = ResultOK]
       ELSE /\ Quiet
            /\ payload' = [payload EXCEPT ![x] = ResultError]
  /\ pc' = [pc EXCEPT ![x] = "wm_unlock"]
  /\ ConnFrame
  /\ UNCHANGED <<msg, ret, Conn, Disconnected, cleanups, lk, ops>>

\* the closing frame, p.Conn.Close() and p.Conn = nil
Conn_Close(x) ==
  /\ pc[x] = "cl_write"
  /\ inflight' = [inflight EXCEPT ![Target(x)] = @ - 1]
  /\ IF TransportAccepts(Target(x))
       THEN out' = [q \in Player |->
                      IF q = Target(x) THEN Written(q, [type |-> CloseMessage], NoSession)
                      ELSE NoWrite]
       ELSE Quiet
  /\ Conn' = [Conn EXCEPT ![Target(x)] = "nil"]
  /\ cleanups' = [cleanups EXCEPT ![Target(x)] = @ + 1]
  /\ pc' = [pc EXCEPT ![x] = "wm_unlock"]
  /\ ConnFrame
  /\ UNCHANGED <<msg, payload, ret, Disconnected, lk, ops>>

\* the deferred p.writeMu.Unlock(); CloseConnection returns into HandleDisconnect
Conn_Unlock(x) ==
  /\ pc[x] = "wm_unlock"
  /\ lk' = [lk EXCEPT ![WriteMu(Target(x))].w = Nobody]
  /\ pc' = [pc EXCEPT ![x] = IF msg[x].type = "CloseConnection" THEN "cl_mark" ELSE ret[x]]
  /\ Quiet
  /\ ConnFrame
  /\ UNCHANGED <<msg, payload, ret, Conn, Disconnected, cleanups, ops, inflight>>

\* Player.MarkDisconnected
Conn_MarkDisconnected(q) ==
  /\ pc[q] = "cl_mark"
  /\ Disconnected' = [Disconnected EXCEPT ![q] = TRUE]
  /\ pc' = [pc EXCEPT ![q] = "done"]
  /\ Quiet
  /\ ConnFrame
  /\ UNCHANGED <<msg, payload, ret, Conn, cleanups, lk, ops, inflight>>

\* case <-ticker.C: player.Conn.WriteControl(websocket.PingMessage, ...) is
\* called without writeMu
Conn_Ping(q) ==
  /\ pc[q] = "loop"
  /\ recalls < MaxRecalls
  /\ recalls' = recalls + 1
  /\ pc' = [pc EXCEPT ![q] = "ping"]
  /\ msg' = [msg EXCEPT ![q] = [type |-> "Ping", to |-> q]]
  /\ inflight' = [inflight EXCEPT ![q] = @ + 1]
  /\ Quiet
  /\ UNCHANGED <<session, payload, existingPlayers, nearby, ret, sessionsToRemove, frames, sweeps,
                 stateVars, sessVars, gridVars, playerVars, histVars, fanVars, lockVars, genVars, toldVars, readerVars, healthVars>>

\* WriteControl returns: the loop goes on, or the supervisor returns and the
\* deferred HandleDisconnect calls CloseConnection
Conn_PingReturns(q) ==
  /\ pc[q] = "ping"
  /\ inflight' = [inflight EXCEPT ![q] = @ - 1]
  /\ IF TransportAccepts(q)
       THEN /\ pc' = [pc EXCEPT ![q] = "loop"]
            /\ UNCHANGED <<msg, ret>>
       ELSE /\ pc' = [pc EXCEPT ![q] = "wm_lock"]
            /\ msg' = [msg EXCEPT ![q] = [type |-> "CloseConnection", to |-> q]]
            /\ ret' = [ret EXCEPT ![q] = "done"]
  /\ Quiet
  /\ ConnFrame
  /\ UNCHANGED <<payload, Conn, Disconnected, cleanups, lk, ops>>

\* the client goes away: later writes to the transport fail
Conn_PeerGone(q) ==
  /\ Conn[q] = "open"
  /\ Conn' = [Conn EXCEPT ![q] = "broken"]
  /\ Quiet
  /\ ConnFrame
  /\ UNCHANGED <<pc, msg, payload, ret, Disconnected, cleanups, lk, ops, inflight>>

NextConn ==
  \/ \E x \in Proc, q \in Player : Conn_CallWriteMessage(x, q)
  \/ \E q \in Player : Conn_CallCloseConnection(q)
  \/ \E x \in Proc : Conn_Lock(x)
  \/ \E x \in Proc : Conn_Transport(x)
  \/ \E x \in Proc : Conn_Close(x)
  \/ \E x \in Proc : Conn_Unlock(x)
  \/ \E q \in Player : Conn_MarkDisconnected(q)
  \/ \E q \in Player : Conn_Ping(q)
  \/ \E q \in Player : Conn_PingReturns(q)
  \/ \E q \in Player : Conn_PeerGone(q)

SpecConn == InitConn /\ [][NextConn]_vars

\* C22: once CloseConnection has run on a player its connection handle stays
\* released; a WriteMessage that takes the write lock after that returns an
\* error and a CloseConnection that takes it after that returns at once, and
\* neither enters the transport, writes a frame or closes anything.
C22_ClosedConnection ==
  [][/\ \A q \in Player :
          /\ (Conn[q] = "nil") => (Conn'[q] = "nil" /\ out'[q] = NoWrite /\ inflight'[q] <= inflight[q])
          /\ (cleanups'[q] > cleanups[q]) => (Conn[q] # "nil" /\ Conn'[q] = "nil")
     /\ \A x \in Proc :
          (pc[x] = "wm_lock" /\ pc'[x] # "wm_lock" /\ Conn[Target(x)] = "nil") =>
             /\ pc'[x] = "wm_unlock"
             /\ inflight' = inflight
             /\ cleanups' = cleanups
             /\ \A q \in Player : out'[q] = NoWrite
             /\ msg[x].type = "WriteMessage" => payload'[x] = ResultError]_vars

C22_Witness ==
  \E q \in Player : \E x \in Proc \ {q} :
    /\ cleanups[q] = 1
    /\ Disconnected[q]
    /\ pc[q] = "wm_unlock" /\ msg[q].type = "CloseConnection"
    /\ ConnIdle(x) /\ msg[x] = [type |-> "WriteMessage", to |-> q] /\ payload[x] = ResultError
    /\ inflight[q] = 0

\* C25: at most one call into a connection's transport write path is in
\* progress at any time, the data sends of WriteMessage, the closing frame of
\* CloseConnection and the supervisor's ping all counted.
C25_OneWriteAtATime ==
  \A q \in Player : inflight[q] <= 1

\* C23: while the sweeper still has a tick to come, a registered session with no
\* member is eventually out of the Registry (or has a member again); a removal
\* by the sweeper is always followed by the session-list broadcast, and that
\* broadcast writes updateSessionList to every lobby player whose connection
\* takes it.
C23_SweeperRemovesEmptySessions ==
  /\ \A s \in SessionIDs :
       (s \in Sessions /\ Players[s] = {} /\ sweeps < MaxSweeps) ~>
          (s \notin Sessions \/ Players[s] # {})
  /\ (pc[Sweeper] = "sl_list") ~> (pc[Sweeper] \in {"sw_idle", "sw_rm"})
  /\ [][(pc[Sweeper] = "sw_rm" /\ pc'[Sweeper] # "sw_rm") =>
          /\ pc'[Sweeper] = "sl_list"
          /\ \E s \in sessionsToRemove : Sessions' = Sessions \ {s}]_vars
  /\ [][(pc[Sweeper] = "sl_bcast" /\ pc'[Sweeper] # "sl_bcast") =>
          \A q \in LobbyPlayers :
             WriteSucceeds(q) =>
                (out'[q].msg = payload[Sweeper] /\ out'[q].msg.type = UpdateSessionList)]_vars

C23_Witness ==
  /\ pc[Sweeper] = "sw_idle"
  /\ sweeps = 1
  /\ sessionsToRemove = {}
  /\ \E s \in allocated \ Sessions : Players[s] = {}
  /\ \E q \in LobbyPlayers : out[q].msg = FormatUpdateSessionList(ListSessions)

\* ------------------------------------------------------------ SpecIDs
\* utils.GenerateSessionID, byte by byte.
\* an alphabet that keeps the characters easily confused
charsAlphanumeric ==
  << "A", "B", "C", "D", "E", "F", "G", "H", "I", "J", "K", "L", "M", "N", "O", "P", "Q", "R",
     "S", "T", "U", "V", "W", "X", "Y", "Z", "0", "1", "2", "3", "4", "5", "6", "7", "8", "9" >>

\* const chars = "ABCDEFGHJKLMNPQRSTUVWXYZ23456789"
chars ==
  << "A", "B", "C", "D", "E", "F", "G", "H", "J", "K", "L", "M", "N", "P", "Q", "R",
     "S", "T", "U", "V", "W", "X", "Y", "Z", "2", "3", "4", "5", "6", "7", "8", "9" >>

\* the values of rand.Intn that the model draws: the two ends of 0..31 and the
\* indices on both sides of each letter or digit that chars leaves out
RandSample == {0, 7, 8, 12, 13, 23, 24, 31}

\* rand.Intn(n): some r with 0 <= r < n
Intn(n) == {r \in RandSample : r < n}

\* the zero byte of a fresh slice
NUL == "NUL"

IDLen == 6

\* the loop index: the first position not yet assigned
NextIndex == IF \E i \in 1..Len(idBuf) : idBuf[i] = NUL
               THEN CHOOSE i \in 1..Len(idBuf) : idBuf[i] = NUL /\ \A j \in 1..(i - 1) : idBuf[j] # NUL
               ELSE 0

\* the loop has ended and string(b) is returned
Returned == idBuf # << >> /\ NextIndex = 0

InitIDs ==
  /\ InitConn

\* b := make([]byte, 6), in the first call or a later one
GenerateSessionID_Make ==
  /\ idBuf = << >> \/ Returned
  /\ idBuf' = [i \in 1..IDLen |-> NUL]
  /\ UNCHANGED <<procVars, envVars, stateVars, sessVars, gridVars, playerVars, out, histVars,
                 fanVars, lockVars, connVars, toldVars, readerVars, healthVars>>

\* b[i] = chars[rand.Intn(len(chars))]
GenerateSessionID_Fill ==
  /\ idBuf # << >>
  /\ NextIndex # 0
  /\ \E r \in Intn(Len(chars)) : idBuf' = [idBuf EXCEPT ![NextIndex] = chars[r + 1]]
  /\ UNCHANGED <<procVars, envVars, stateVars, sessVars, gridVars, playerVars, out, histVars,
                 fanVars, lockVars, connVars, toldVars, readerVars, healthVars>>

NextIDs == GenerateSessionID_Make \/ GenerateSessionID_Fill

SpecIDs == InitIDs /\ [][NextIDs]_vars

SessionIDAlphabet ==
  {"A", "B", "C", "D", "E", "F", "G", "H", "J", "K", "L", "M", "N", "P", "Q", "R",
   "S", "T", "U", "V", "W", "X", "Y", "Z", "2", "3", "4", "5", "6", "7", "8", "9"}

\* C24: a session ID returned by GenerateSessionID has exactly 6 characters, each
\* one of ABCDEFGHJKLMNPQRSTUVWXYZ23456789, so none of them is 0, O, 1 or I; the
\* bytes assigned so far are of that alphabet at every point of the loop.
C24_SessionIDAlphabet ==
  /\ \A i \in 1..Len(idBuf) : idBuf[i] \in SessionIDAlphabet \cup {NUL}
  /\ Returned =>
       /\ Len(idBuf) = 6
       /\ \A i \in 1..6 : idBuf[i] \in SessionIDAlphabet /\ idBuf[i] \notin {"0", "O", "1", "I"}

C24_Witness ==
  /\ Returned
  /\ idBuf[1] = "A" /\ idBuf[2] = "H" /\ idBuf[3] = "J" /\ idBuf[4] = "P" /\ idBuf[5] = "2" /\ idBuf[6] = "9"

\* ------------------------------------------------------------ SpecPresence
\* Player.UpdateState and Player.ExportInfo, assignment by assignment and read
\* by read, under Player.mu. A player's own goroutine updates it (handleUpdate);
\* the goroutines of the others export it (ExportPlayerInfos of a join).
\* p.mu.RLock() with no regard for a writer
MuRLockableAlways(q) == TRUE

\* p.mu.RLock() goes ahead when no writer holds p.mu
MuRLockable(q) == lk[PlayerMu(q)].w = Nobody

\* p.mu.Lock() goes ahead when nobody holds p.mu
MuLockable(q) == lk[PlayerMu(q)].w = Nobody /\ \A y \in Proc : lk[PlayerMu(q)].r[y] = 0

PresFrame ==
  UNCHANGED <<session, existingPlayers, nearby, sessionsToRemove, recalls, sweeps, stateVars,
              sessVars, gridVars, Username, SessionID, Conn, Disconnected, out, histVars,
              fanVars, prog, connVars, genVars, toldVars, readerVars, healthVars>>

\* handleUpdate: player.UpdateState(msg.Position, msg.Rotation, msg.ModelRotation, msg.Animation)
UpdateState_Call(p, in) ==
  /\ pc[p] = "loop"
  /\ frames < MaxFrames
  /\ frames' = frames + 1
  /\ msg' = [msg EXCEPT ![p] = [type |-> UpdatePlayer, state |-> in]]
  /\ pc' = [pc EXCEPT ![p] = "us_lock"]
  /\ PresFrame
  /\ UNCHANGED <<payload, ret, Presence, lk, ops>>

\* UpdateState: p.mu.Lock()
UpdateState_Lock(p) ==
  /\ pc[p] = "us_lock"
  /\ MuLockable(p)
  /\ lk' = [lk EXCEPT ![PlayerMu(p)].w = p]
  /\ pc' = [pc EXCEPT ![p] = "us_pos"]
  /\ PresFrame
  /\ UNCHANGED <<msg, payload, ret, Presence, frames, ops>>

\* UpdateState: the four assignments, one per step
UpdateState_Assign(p) ==
  /\ pc[p] \in {"us_pos", "us_rot", "us_mrot", "us_anim"}
  /\ CASE pc[p] = "us_pos" ->
            /\ Presence' = [Presence EXCEPT ![p].position = msg[p].state.position]
            /\ pc' = [pc EXCEPT ![p] = "us_rot"]
       [] pc[p] = "us_rot" ->
            /\ Presence' = [Presence EXCEPT ![p].rotation = msg[p].state.rotation]
            /\ pc' = [pc EXCEPT ![p] = "us_mrot"]
       [] pc[p] = "us_mrot" ->
            /\ Presence' = [Presence EXCEPT ![p].modelRotation = msg[p].state.modelRotation]
            /\ pc' = [pc EXCEPT ![p] = "us_anim"]
       [] pc[p] = "us_anim" ->
            /\ Presence' = [Presence EXCEPT ![p].animation = msg[p].state.animation]
            /\ pc' = [pc EXCEPT ![p] = "us_unlock"]
  /\ PresFrame
  /\ UNCHANGED <<msg, payload, ret, frames, lk, ops>>

\* UpdateState: the deferred p.mu.Unlock(); msg[p] stays as the update that completed last
UpdateState_Unlock(p) ==
  /\ pc[p] = "us_unlock"
  /\ lk' = [lk EXCEPT ![PlayerMu(p)].w = Nobody]
  /\ pc' = [pc EXCEPT ![p] = "loop"]
  /\ PresFrame
  /\ UNCHANGED <<msg, payload, ret, Presence, frames, ops>>

\* another goroutine calls q.ExportInfo()
ExportInfo_Call(x, q) ==
  /\ x # q
  /\ pc[x] \in {"loop", "sw_idle"}
  /\ ops < MaxCalls
  /\ ops' = ops + 1
  /\ msg' = [msg EXCEPT ![x] = [type |-> "ExportInfo", to |-> q]]
  /\ payload' = [payload EXCEPT ![x] = NoMsg]
  /\ ret' = [ret EXCEPT ![x] = pc[x]]
  /\ pc' = [pc EXCEPT ![x] = "ei_lock"]
  /\ PresFrame
  /\ UNCHANGED <<Presence, frames, lk>>

\* ExportInfo: p.mu.RLock()
ExportInfo_RLock(x) ==
  /\ pc[x] = "ei_lock"
  /\ MuRLockable(Target(x))
  /\ lk' = [lk EXCEPT ![PlayerMu(Target(x))].r[x] = @ + 1]
  /\ payload' = [payload EXCEPT ![x] = [id |-> Target(x), username |-> Username[Target(x)]]]
  /\ pc' = [pc EXCEPT ![x] = "ei_pos"]
  /\ PresFrame
  /\ UNCHANGED <<msg, ret, Presence, frames, ops>>

\* ExportInfo: the fields of the map literal, read one per step
ExportInfo_Read(x) ==
  /\ pc[x] \in {"ei_pos", "ei_rot", "ei_mrot", "ei_anim"}
  /\ CASE pc[x] = "ei_pos" ->
            /\ payload' = [payload EXCEPT ![x] = @ @@ [position |-> Presence[Target(x)].position]]
            /\ pc' = [pc EXCEPT ![x] = "ei_rot"]
       [] pc[x] = "ei_rot" ->
            /\ payload' = [payload EXCEPT ![x] = @ @@ [rotation |-> Presence[Target(x)].rotation]]
            /\ pc' = [pc EXCEPT ![x] = "ei_mrot"]
       [] pc[x] = "ei_mrot" ->
            /\ payload' = [payload EXCEPT ![x] = @ @@ [modelRotation |-> Presence[Target(x)].modelRotation]]
            /\ pc' = [pc EXCEPT ![x] = "ei_anim"]
       [] pc[x] = "ei_anim" ->
            /\ payload' = [payload EXCEPT ![x] = @ @@ [animation |-> Presence[Target(x)].animation]]
            /\ pc' = [pc EXCEPT ![x] = "ei_unlock"]
  /\ PresFrame
  /\ UNCHANGED <<msg, ret, Presence, frames, lk, ops>>

\* ExportInfo: the deferred p.mu.RUnlock(); payload[x] is the map returned
ExportInfo_RUnlock(x) ==
  /\ pc[x] = "ei_unlock"
  /\ lk' = [lk EXCEPT ![PlayerMu(Target(x))].r[x] = @ - 1]
  /\ pc' = [pc EXCEPT ![x] = "ei_done"]
  /\ PresFrame
  /\ UNCHANGED <<msg, payload, ret, Presence, frames, ops>>

\* the caller goes on with the map
ExportInfo_Return(x) ==
  /\ pc[x] = "ei_done"
  /\ pc' = [pc EXCEPT ![x] = ret[x]]
  /\ msg' = [msg EXCEPT ![x] = NoMsg]
  /\ payload' = [payload EXCEPT ![x] = NoMsg]
  /\ ret' = [ret EXCEPT ![x] = "none"]
  /\ PresFrame
  /\ UNCHANGED <<Presence, frames, lk, ops>>

NextPresence ==
  \/ \E p \in Player, in \in GridInputs : UpdateState_Call(p, in)
  \/ \E p \in Player : UpdateState_Lock(p)
  \/ \E p \in Player : UpdateState_Assign(p)
  \/ \E p \in Player : UpdateState_Unlock(p)
  \/ \E x \in Proc, q \in Player : ExportInfo_Call(x, q)
  \/ \E x \in Proc : ExportInfo_RLock(x)
  \/ \E x \in Proc : ExportInfo_Read(x)
  \/ \E x \in Proc : ExportInfo_RUnlock(x)
  \/ \E x \in Proc : ExportInfo_Return(x)

SpecPresence == InitConn /\ [][NextPresence]_vars

\* the four presence values of an exported map
PresenceOf(info) ==
  [position |-> info.position, rotation |-> info.rotation,
   modelRotation |-> info.modelRotation, animation |-> info.animation]

\* C26: the map ExportInfo returns holds the four values of one UpdateState call
\* (or the four initial ones), never a mix of two; and when the player's last
\* UpdateState had completed, with none started since, when ExportInfo has read
\* the fields, the map and the player hold exactly that update's four values.
C26_UpdateStateIsAtomic ==
  /\ \A x \in Proc :
       /\ pc[x] \in {"ei_unlock", "ei_done"} =>
             PresenceOf(payload[x]) \in GridInputs \cup {InitialPresence}
       /\ (pc[x] = "ei_unlock" /\ pc[Target(x)] = "loop" /\ msg[Target(x)].type = UpdatePlayer) =>
             PresenceOf(payload[x]) = msg[Target(x)].state
  /\ \A p \in Player :
       (pc[p] = "loop" /\ msg[p].type = UpdatePlayer) => Presence[p] = msg[p].state

C26_Witness ==
  \E p \in Player : \E x \in Proc \ {p} :
    /\ pc[x] = "ei_done" /\ Target(x) = p
    /\ pc[p] = "us_lock"
    /\ frames = 2
    /\ PresenceOf(payload[x]) # msg[p].state
    /\ PresenceOf(payload[x]) # InitialPresence
    /\ PresenceOf(payload[x]).animation = "run"

\* ------------------------------------------------------------ SpecContend
\* The handlers of SpecLocks with the handler and the session of every goroutine
\* on record in msg: updates and sounds of the members of SessionA next to
\* joins and creations of SessionB, session listings and the sweeper.
SessionA == 1

SessionB == 2

\* handleMessage dispatches msg to a handler; the sweeper's ticker fires
Ct_Begin(x, kind, s, program) ==
  /\ prog[x] = << >>
  /\ ops < MaxOps
  /\ program # << >>
  /\ prog' = [prog EXCEPT ![x] = program]
  /\ msg' = [msg EXCEPT ![x] = [type |-> kind, sessionId |-> s]]
  /\ ops' = ops + 1
  /\ UNCHANGED <<lk, pc, session, payload, existingPlayers, nearby, ret, sessionsToRemove, envVars,
                 stateVars, sessVars, gridVars, playerVars, out, histVars, fanVars, connVars, genVars, toldVars, readerVars, healthVars>>

NextContend ==
  \/ \E p \in Player, ids \in SUBSET Player :
       Ct_Begin(p, UpdatePlayer, SessionA, LkHandleUpdate(p, SessionA, ids))
  \/ \E p \in Player : Ct_Begin(p, PlayerSound, SessionA, LkHandleSound(p, SessionA))
  \/ \E p \in Player, found \in BOOLEAN, written \in BOOLEAN :
       Ct_Begin(p, JoinSession, SessionB, LkHandleJoinSession(p, SessionB, found, written))
  \/ \E p \in Player, written \in BOOLEAN :
       Ct_Begin(p, CreateSession, SessionB, LkHandleCreateSession(p, SessionB, written))
  \/ \E p \in Player : Ct_Begin(p, GetSessions, NoSession, LkHandleListSessions(p))
  \/ \E found \in BOOLEAN : Ct_Begin(Sweeper, "cleanup", NoSession, LkCleanupLoop(found))
  \/ \E x \in Proc : Lk_Lock(x)
  \/ \E x \in Proc : Lk_LockAfterReaders(x)
  \/ \E x \in Proc : Lk_RLock(x)
  \/ \E x \in Proc : Lk_Unlock(x)
  \/ \E x \in Proc : Lk_RUnlock(x)
  \/ \E x \in Proc, q \in Player : Lk_FanLock(x, q)
  \/ \E x \in Proc, q \in Player : Lk_FanUnlock(x, q)
  \/ \E x \in Proc : Lk_FanWait(x)

SpecContend == InitLocks /\ [][NextContend]_vars

\* x is about to take mutex m and cannot: a writer holds it, a writer waits for
\* it, or x wants to write and somebody reads
WaitsFor(x, m) ==
  /\ prog[x] # << >>
  /\ Cur(x).m = m
  /\ \/ /\ Cur(x).op = "RLock"
        /\ lk[m].w # Nobody \/ lk[m].ww # {}
     \/ /\ Cur(x).op = "Lock"
        /\ lk[m].w # Nobody \/ lk[m].ww \ {x} # {} \/ Readers(m) \ {x} # {}

Holds(y, m) == lk[m].w = y \/ lk[m].r[y] > 0

\* y is inside a handler that acts on another session than s, or on the lobby
ActsElsewhere(y, s) == prog[y] # << >> /\ msg[y].sessionId # s

\* C27: a goroutine inside handleUpdate or handleSound for a member of a session
\* is never kept from a mutex that a goroutine holds inside an operation on
\* another session or on the lobby.
C27_NoWaitingAcrossSessions ==
  \A p \in Player, m \in LockIDs, y \in Proc :
    (msg[p].type \in {UpdatePlayer, PlayerSound} /\ WaitsFor(p, m)) =>
       ~(y # p /\ Holds(y, m) /\ ActsElsewhere(y, msg[p].sessionId))

\* no handler, disconnect or sweep is under way
AllAtRest == \A x \in Proc : pc[x] \in {"new", "loop", "done", "sw_idle"}

\* C28: a session enters the Registry only with its creator among its members,
\* and whenever no handler is under way every registered session that has not
\* been started has its creator among its members, the creator still connected.
C28_CreatorIsMember ==
  /\ [][\A s \in SessionIDs :
          (s \notin Sessions /\ s \in Sessions') => CreatorID'[s] \in Players'[s]]_vars
  /\ [](AllAtRest =>
          \A s \in Sessions :
             ~Started[s] =>
                /\ CreatorID[s] \in Players[s]
                /\ Conn[CreatorID[s]] # "nil"
                /\ ~Disconnected[CreatorID[s]])

\* C29: in every state a player is a member of at most one registered session,
\* also after a createSession or joinSession sent by a player that is a member
\* of a session already.
C29_AtMostOneMembership ==
  \A p \in Player : \A s, t \in Sessions : (p \in Players[s] /\ p \in Players[t]) => s = t

\* p's join of OpenSession has returned, its sessionJoined written, and p is connected
JoinDone(p) ==
  /\ pc[p] = "loop"
  /\ SessionID[p] = OpenSession
  /\ p \in Players[OpenSession]
  /\ p \in told[p]

\* C30: once the joins of two players into the same session have both returned,
\* each of the two has been named to the other, in the players list of the
\* other's sessionJoined or by a playerJoined written to the other's connection.
C30_JoinersLearnOfEachOther ==
  \A p, q \in Player : (p # q /\ JoinDone(p) /\ JoinDone(q)) => q \in told[p]

ReaderFrame ==
  UNCHANGED <<procVars, recalls, sweeps, stateVars, sessVars, gridVars, playerVars, out, histVars,
              fanVars, lockVars, connVars, genVars, toldVars, healthVars>>

\* player.Conn.ReadMessage() returns a frame
Reader_Frame(q) ==
  /\ reader[q] = "reading"
  /\ Conn[q] = "open"
  /\ frames < MaxFrames
  /\ frames' = frames + 1
  /\ reader' = [reader EXCEPT ![q] = "deliver"]
  /\ ReaderFrame

\* messageChan <- messageData, and the for loop goes round
Reader_Deliver(q) ==
  /\ reader[q] = "deliver"
  /\ reader' = [reader EXCEPT ![q] = "top"]
  /\ UNCHANGED frames
  /\ ReaderFrame

\* the next player.Conn.ReadMessage(): player.Conn is read without a lock while
\* CloseConnection assigns it under writeMu, so once it has been set to nil the
\* read yields nil, and the call dereferences it, or the pointer from before
Reader_Read(q) ==
  /\ reader[q] = "top"
  /\ IF Conn[q] = "nil"
       THEN \E seen \in {"panic", "reading"} : reader' = [reader EXCEPT ![q] = seen]
       ELSE reader' = [reader EXCEPT ![q] = "reading"]
  /\ UNCHANGED frames
  /\ ReaderFrame

\* ReadMessage returns an error (peer gone, connection closed): errorChan <- err; return
Reader_Error(q) ==
  /\ reader[q] = "reading"
  /\ Conn[q] # "open"
  /\ reader' = [reader EXCEPT ![q] = "exited"]
  /\ UNCHANGED frames
  /\ ReaderFrame

\* case err := <-errorChan: the supervisor returns and the deferred
\* HandleDisconnect calls CloseConnection
Reader_ErrorSeen(q) ==
  /\ pc[q] = "loop"
  /\ reader[q] = "exited"
  /\ pc' = [pc EXCEPT ![q] = "wm_lock"]
  /\ msg' = [msg EXCEPT ![q] = [type |-> "CloseConnection", to |-> q]]
  /\ ret' = [ret EXCEPT ![q] = "done"]
  /\ Quiet
  /\ ConnFrame
  /\ UNCHANGED <<payload, Conn, Disconnected, cleanups, lk, ops, inflight>>

NextReader ==
  \/ \E q \in Player : Reader_Frame(q)
  \/ \E q \in Player : Reader_Deliver(q)
  \/ \E q \in Player : Reader_Read(q)
  \/ \E q \in Player : Reader_Error(q)
  \/ \E q \in Player : Reader_ErrorSeen(q)
  \/ \E x \in Proc : Conn_Lock(x)
  \/ \E x \in Proc : Conn_Close(x)
  \/ \E x \in Proc : Conn_Unlock(x)
  \/ \E q \in Player : Conn_MarkDisconnected(q)
  \/ \E q \in Player : Conn_Ping(q)
  \/ \E q \in Player : Conn_PingReturns(q)
  \/ \E q \in Player : Conn_PeerGone(q)

SpecReader == InitConn /\ [][NextReader]_vars

\* C32: no goroutine dereferences a connection handle that CloseConnection has
\* set to nil: the reader goroutine never calls ReadMessage on nil and the ping
\* is never written through nil.
C32_NoNilDereference ==
  \A q \in Player :
    /\ reader[q] # "panic"
    /\ pc[q] = "ping" => Conn[q] # "nil"

\* C33: a step that adds a session to the Registry or removes one goes on to
\* the session-list broadcast; and when such a broadcast is written while every
\* other goroutine is at rest and its own goroutine comes to rest with it (no
\* addition or removal is under way any more), the list written to each lobby
\* player names exactly the sessions in the Registry.
C33_LastListIsCurrent ==
  [][\A x \in Proc :
       /\ (Sessions' # Sessions /\ pc'[x] # pc[x]) => pc'[x] = "sl_list"
       /\ (/\ pc[x] = "sl_bcast"
           /\ pc'[x] \in {"loop", "done", "sw_idle"}
           /\ \A y \in Proc \ {x} : pc[y] \in {"new", "loop", "done", "sw_idle"}) =>
             \A q \in LobbyPlayers :
                WriteSucceeds(q) =>
                   /\ out'[q].msg.type = UpdateSessionList
                   /\ {i.id : i \in out'[q].msg.sessions} = Sessions]_vars


\* ------------------------------------------------------- C34: grid maps
\* the two maps of the grid of session s agree: every tracked player's cell is
\* kept and holds it, no other cell holds it, and no kept cell is empty or
\* holds an untracked player
GridConsistent(s) ==
  /\ \A p \in DOMAIN playerCells[s] :
       /\ playerCells[s][p] \in DOMAIN cells[s]
       /\ \A c \in DOMAIN cells[s] : (p \in cells[s][c]) <=> (c = playerCells[s][p])
  /\ \A c \in DOMAIN cells[s] :
       /\ cells[s][c] # {}
       /\ cells[s][c] \subseteq DOMAIN playerCells[s]

\* C34: in every state each tracked player ID maps to exactly one cell and is
\* in the ID set of that cell and of no other, and no empty cell is kept; an
\* UpdatePlayerPosition that stays in the same cell and a RemovePlayer of an
\* untracked ID leave both maps unchanged
C34_GridMapsAgree ==
  /\ [](\A s \in SessionIDs : GridConsistent(s))
  /\ [][\A p \in Player :
          /\ (/\ pc[p] = "upd_2"
              /\ pc'[p] = "upd_3"
              /\ p \in DOMAIN playerCells[session[p]]
              /\ playerCells[session[p]][p] = getCellKey(msg[p].state.position)) =>
                 UNCHANGED gridVars
          /\ (/\ pc[p] = "hd_4"
              /\ pc'[p] = "rm_1"
              /\ p \notin DOMAIN playerCells[session[p]]) =>
                 UNCHANGED gridVars]_vars

\* a player moved between cells and the cell it left, emptied, was dropped,
\* while a member that never sent an update has been removed
C34_Witness ==
  \E p, q \in Player :
    /\ p # q
    /\ frames = 3
    /\ playerCells[PlaySession] = [x \in {p} |-> <<10, 10>>]
    /\ cells[PlaySession] = [c \in {<<10, 10>>} |-> {p}]
    /\ Presence[p].animation = "run"
    /\ pc[p] = "loop"
    /\ pc[q] = "done"
    /\ joined[PlaySession] = Player


\* ------------------------------------------- the grid as a data structure
\* UpdatePlayerPosition, RemovePlayer and GetNearbyPlayers called one after the
\* other on the grid of PlaySession with positions on both sides of the cell
\* borders and of zero. Every call runs under g.mu, so each is one step. The
\* position of the last UpdatePlayerPosition of a player is kept in Presence,
\* the list a query returned in ret.
GridCoordsX == {-101, -100, -51, -50, -1, 0, 49, 50, 99, 100}
GridCoordsZ == {-1, 0, 100}
GridPositions == {<<x, 0, z>> : x \in GridCoordsX, z \in GridCoordsZ}

Range(f) == {f[i] : i \in DOMAIN f}

\* the offsets (dx, dz) in the order of the two loops of GetNearbyPlayers
Offsets ==
  [i \in 1..((2 * cellRadius + 1) * (2 * cellRadius + 1)) |->
     <<((i - 1) \div (2 * cellRadius + 1)) - cellRadius,
       ((i - 1) % (2 * cellRadius + 1)) - cellRadius>>]

\* a query that reports the asking player too
OthersInWithSelf(ids, id) == ids
\* GetNearbyPlayers: if playerID == id { continue }
OthersIn(ids, id) == ids \ {id}

\* GetNearbyPlayers: the inner loop over one cell, appending the IDs not seen yet
\* (the order in which Go walks the map of a cell is left open by the language;
\* one order is taken here, the properties stated below do not depend on it)
RECURSIVE AppendUnseen(_, _)
AppendUnseen(acc, ids) ==
  IF ids = {} THEN acc
  ELSE LET q == CHOOSE q \in ids : TRUE
       IN AppendUnseen(IF q \in Range(acc) THEN acc ELSE Append(acc, q), ids \ {q})

\* GetNearbyPlayers: the loops over dx and dz from offset i on
RECURSIVE Collect(_, _, _, _, _)
Collect(cs, cell, id, i, acc) ==
  IF i > Len(Offsets) THEN acc
  ELSE LET c == <<cell[1] + Offsets[i][1], cell[2] + Offsets[i][2]>>
       IN Collect(cs, cell, id, i + 1,
                  IF c \in DOMAIN cs THEN AppendUnseen(acc, OthersIn(cs[c], id)) ELSE acc)

\* Grid.GetNearbyPlayers as the list it returns
GetNearbyList(s, id) ==
  IF id \notin DOMAIN playerCells[s] THEN << >>
  ELSE Collect(cells[s], playerCells[s][id], id, 1, << >>)

NearbyFrame ==
  UNCHANGED <<pc, msg, session, ret, existingPlayers, sessionsToRemove, envVars, stateVars,
              sessVars, Username, SessionID, Conn, Disconnected, out, histVars, fanVars, lockVars,
              connVars, genVars, toldVars, readerVars, healthVars>>

\* Grid.UpdatePlayerPosition(p, pos)
Grid_UpdatePlayerPosition(p, pos) ==
  /\ LET s == PlaySession
         newCell == getCellKey(pos)
         tracked == p \in DOMAIN playerCells[s]
     IN IF tracked /\ playerCells[s][p] = newCell
          THEN UNCHANGED gridVars
          ELSE /\ cells' = [cells EXCEPT ![s] =
                     CellsWith(IF tracked THEN CellsWithout(cells[s], playerCells[s][p], p) ELSE cells[s],
                               newCell, p)]
               /\ playerCells' = [playerCells EXCEPT ![s] =
                     [q \in DOMAIN playerCells[s] \cup {p} |-> IF q = p THEN newCell ELSE playerCells[s][q]]]
  /\ Presence' = [Presence EXCEPT ![p].position = pos]
  /\ payload' = [payload EXCEPT ![p] = NoMsg]
  /\ UNCHANGED nearby
  /\ NearbyFrame

\* Grid.RemovePlayer(p)
Grid_RemovePlayer(p) ==
  /\ LET s == PlaySession IN
       IF p \in DOMAIN playerCells[s]
         THEN /\ cells' = [cells EXCEPT ![s] = CellsWithout(@, playerCells[s][p], p)]
              /\ playerCells' = [playerCells EXCEPT ![s] = [q \in DOMAIN @ \ {p} |-> @[q]]]
         ELSE UNCHANGED gridVars
  /\ payload' = [payload EXCEPT ![p] = NoMsg]
  /\ UNCHANGED <<nearby, Presence>>
  /\ NearbyFrame

\* Grid.GetNearbyPlayers(p)
Grid_GetNearbyPlayers(p) ==
  /\ payload' = [payload EXCEPT ![p] = [type |-> "nearbyPlayers", ids |-> GetNearbyList(PlaySession, p)]]
  /\ nearby' = [nearby EXCEPT ![p] = GetNearbyPlayers(PlaySession, p)]
  /\ UNCHANGED <<gridVars, Presence>>
  /\ NearbyFrame

NextNearby ==
  \/ \E p \in Player, pos \in GridPositions : Grid_UpdatePlayerPosition(p, pos)
  \/ \E p \in Player : Grid_RemovePlayer(p)
  \/ \E p \in Player : Grid_GetNearbyPlayers(p)

SpecNearby == InitGrid /\ [][NextNearby]_vars

NoDuplicates(list) == \A i, j \in DOMAIN list : list[i] = list[j] => i = j

C36_NearbyCoversViewDistance ==
  \A p, q \in DOMAIN playerCells[PlaySession] :
    p # q =>
      LET a == Presence[p].position
          b == Presence[q].position
          qNearP == q \in Range(GetNearbyList(PlaySession, p))
          pNearQ == p \in Range(GetNearbyList(PlaySession, q))
      IN /\ (Abs(a[1] - b[1]) <= ViewDistance /\ Abs(a[3] - b[3]) <= ViewDistance) =>
              (qNearP /\ pNearQ)
         /\ qNearP <=> pNearQ

\* two players exactly viewDistance apart on both axes, the one at negative X:
\* their keys are two cells apart on both axes and the query has returned the other
C36_Witness ==
  /\ {1, 2} \subseteq DOMAIN playerCells[PlaySession]
  /\ Presence[1].position = <<-101, 0, 0>>
  /\ Presence[2].position = <<-1, 0, 100>>
  /\ playerCells[PlaySession][1] = <<-3, 0>>
  /\ playerCells[PlaySession][2] = <<-1, 2>>
  /\ payload[1] = [type |-> "nearbyPlayers", ids |-> <<2>>]
  /\ payload[2] = [type |-> "nearbyPlayers", ids |-> <<1>>]


\* ------------------------------------------- C37: who the grids track
\* The server after each of the two players has created a session of its own
\* (reached under Spec by two createSession frames): from there the players
\* send updates, join the other session and drop out.
InitTwoSessions ==
  /\ pc = [x \in Proc |-> IF x = Sweeper THEN "sw_idle" ELSE "loop"]
  /\ msg = [x \in Proc |-> NoMsg]
  /\ session = [x \in Proc |-> NoSession]
  /\ payload = [x \in Proc |-> NoMsg]
  /\ existingPlayers = [x \in Proc |-> {}]
  /\ nearby = [x \in Proc |-> {}]
  /\ ret = [x \in Proc |-> "none"]
  /\ sessionsToRemove = {}
  /\ frames = 0
  /\ recalls = 0
  /\ sweeps = 0
  /\ LobbyPlayers = {}
  /\ Sessions = SessionIDs
  /\ allocated = SessionIDs
  /\ CreatorID = [s \in SessionIDs |-> s]
  /\ Players = [s \in SessionIDs |-> {s}]
  /\ PlayerCount = [s \in SessionIDs |-> 1]
  /\ Started = [s \in SessionIDs |-> FALSE]
  /\ cells = [s \in SessionIDs |-> EmptyMap]
  /\ playerCells = [s \in SessionIDs |-> EmptyMap]
  /\ Username = [p \in Player |-> "ann"]
  /\ SessionID = [p \in Player |-> p]
  /\ Presence = [p \in Player |-> InitialPresence]
  /\ Conn = [p \in Player |-> "open"]
  /\ Disconnected = [p \in Player |-> FALSE]
  /\ out = [p \in Player |-> NoWrite]
  /\ joined = [s \in SessionIDs |-> {s}]
  /\ cleanups = [p \in Player |-> 0]
  /\ fan = NoFan
  /\ fanSent = [q \in Player |-> 0]
  /\ fanFailed = [q \in Player |-> 0]
  /\ fanPhase = "idle"
  /\ lk = [m \in LockIDs |-> FreeLock]
  /\ prog = [x \in Proc |-> << >>]
  /\ ops = 0
  /\ inflight = [q \in Player |-> 0]
  /\ idBuf = << >>
  /\ told = << >>
  /\ reader = [q \in Player |-> "none"]
  /\ health = NoHealth

NextSwitch ==
  \/ \E p \in Player, sid \in SessionIDs, u \in Usernames : handleJoinSession(p, sid, u)
  \/ \E p \in Player : Reply(p)
  \/ \E p \in Player, in \in UpdateInputs : handleUpdate(p, in)
  \/ \E p \in Player : UpdatePlayerPosition(p)
  \/ \E p \in Player : handleUpdate_Nearby(p)
  \/ \E p \in Player : handleUpdate_Broadcast(p)
  \/ \E p \in Player : AddPlayer_Export(p)
  \/ \E p \in Player : AddPlayer_Insert(p)
  \/ \E p \in Player : AddPlayer_RemoveLobbyPlayer(p)
  \/ \E p \in Player : AddPlayer_Notify(p)
  \/ \E p \in Player : AddPlayer_Broadcast(p)
  \/ \E p \in Player : AddPlayer_StateBroadcast(p)
  \/ \E p \in Player : JoinSession_SetSessionID(p)
  \/ \E p \in Player : RemoveSession_Delete(p)
  \/ \E x \in Proc : SessionList_Format(x)
  \/ \E x \in Proc : SessionList_Broadcast(x)
  \/ \E p \in Player : ReadError(p)
  \/ \E p \in Player : PingFailure(p)
  \/ \E p \in Player : HandleDisconnectAgain(p)
  \/ \E p \in Player : CloseConnection(p)
  \/ \E p \in Player : GridRemovePlayer(p)
  \/ \E p \in Player : RemovePlayer(p)
  \/ \E p \in Player : RemovePlayer_Broadcast(p)
  \/ \E p \in Player : RemovePlayer_StateBroadcast(p)
  \/ \E p \in Player : HandleDisconnect_CleanUp(p)
  \/ CleanupLoop_Scan
  \/ CleanupLoop_Remove

SpecSwitch == InitTwoSessions /\ [][NextSwitch]_vars

\* C37: the grid of a registered session tracks only players that are still
\* connected and, once their handler has returned, are members of that session
\* and of no other by their SessionID: no grid tracks a player that has left
\* the session or has disconnected
C37_IndexTracksLiveMembers ==
  \A s \in Sessions, p \in Player :
    p \in DOMAIN playerCells[s] =>
      /\ pc[p] # "done"
      /\ pc[p] = "loop" => (SessionID[p] = s /\ p \in Players[s])


\* ------------------------------------------- C38: starting a started session
\* The started session of SpecGrid, whose members also send startSession
\* frames: every Start of the creator is a Start of a session that has been
\* started before.
NextStart ==
  \/ \E p \in Player, in \in GridInputs : handleUpdate(p, in)
  \/ \E p \in Player : UpdatePlayerPosition(p)
  \/ \E p \in Player : handleUpdate_Nearby(p)
  \/ \E p \in Player : handleUpdate_Broadcast(p)
  \/ \E p \in Player, t \in SoundTypes, pos \in SoundPositions : handleSound(p, t, pos)
  \/ \E p \in Player : handleSound_Broadcast(p)
  \/ \E p \in Player : ReadError(p)
  \/ \E p \in Player : CloseConnection(p)
  \/ \E p \in Player : GridRemovePlayer(p)
  \/ \E p \in Player : RemovePlayer(p)
  \/ \E p \in Player : RemovePlayer_Broadcast(p)
  \/ \E p \in Player : RemovePlayer_StateBroadcast(p)
  \/ \E p \in Player : HandleDisconnect_CleanUp(p)
  \/ \E p \in Player : RemoveSession_Delete(p)
  \/ \E x \in Proc : SessionList_Format(x)
  \/ \E x \in Proc : SessionList_Broadcast(x)
  \/ \E p \in Player, sid \in SessionIDs : handleStartSession(p, sid)
  \/ \E p \in Player : Reply(p)
  \/ \E p \in Player : Start(p)
  \/ \E p \in Player : handleStartSession_Broadcast(p)

SpecStart == InitGrid /\ [][NextStart]_vars

\* C38: no step sets the started flag of a session back to false; Start leaves
\* the flag true, and a Start of a session that is started already leaves the
\* session's state (creator, members, count, flag, grid) as it was
C38_StartIsIdempotent ==
  [][/\ \A s \in SessionIDs : Started[s] => Started'[s]
     /\ \A p \in Player :
          (pc[p] = "start_2" /\ pc'[p] = "start_3") =>
             /\ Started'[session[p]]
             /\ Started[session[p]] => UNCHANGED <<sessVars, gridVars>>]_vars

\* the creator has run Start on its session, which was started before, while
\* the session has a tracked member
C38_Witness ==
  /\ pc[1] = "start_3"
  /\ session[1] = PlaySession
  /\ Started[PlaySession]
  /\ CreatorID[PlaySession] = 1
  /\ 2 \in DOMAIN playerCells[PlaySession]


\* C39: a goroutine that is in the middle of a call through a player's Conn
\* (the data send of WriteMessage, the closing frame and the reset of
\* CloseConnection, the supervisor's ping) holds that player's writeMu, and
\* the step of WriteMessage that reads the player's Disconnected flag is taken
\* by a goroutine that holds the player's mu, the lock MarkDisconnected writes
\* the flag under
C39_AccessesHoldTheLock ==
  /\ [](\A x \in Proc :
          pc[x] \in {"wm_write", "cl_write", "ping"} => Holds(x, WriteMu(Target(x))))
  /\ [][\A x \in Proc :
          (pc[x] = "wm_lock" /\ msg[x].type = "WriteMessage" /\ pc'[x] # "wm_lock") =>
             Holds(x, PlayerMu(Target(x)))']_vars


\* ------------------------------------------------- C40: the health endpoint
\* GameState.GetCounts: len(s.LobbyPlayers), len(s.Sessions) under s.mu.RLock
GetCounts == <<Cardinality(LobbyPlayers), Cardinality(Sessions)>>

\* HealthHandler: GET /health answers with the two counts
HealthHandler ==
  /\ health' = [status |-> "healthy", players |-> GetCounts[1], sessions |-> GetCounts[2]]
  /\ UNCHANGED <<procVars, envVars, stateVars, sessVars, gridVars, playerVars, out, histVars, fanVars,
                 lockVars, connVars, genVars, toldVars, readerVars>>

NextHealth ==
  \/ \E p \in Player : HandleWebSocket(p)
  \/ \E p \in Player, why \in {"undecodable", "unknown type"} : DiscardFrame(p, why)
  \/ \E p \in Player : handleListSessions(p)
  \/ \E p \in Player : Reply(p)
  \/ \E p \in Player, u \in Usernames : handleCreateSession(p, u)
  \/ \E p \in Player, sid \in SessionIDs, u \in Usernames : handleJoinSession(p, sid, u)
  \/ \E p \in Player, sid \in SessionIDs : handleStartSession(p, sid)
  \/ \E p \in Player : Start(p)
  \/ \E p \in Player : handleStartSession_Broadcast(p)
  \/ \E p \in Player, in \in UpdateInputs : handleUpdate(p, in)
  \/ \E p \in Player : UpdatePlayerPosition(p)
  \/ \E p \in Player : handleUpdate_Nearby(p)
  \/ \E p \in Player : handleUpdate_Broadcast(p)
  \/ \E p \in Player, t \in SoundTypes, pos \in SoundPositions : handleSound(p, t, pos)
  \/ \E p \in Player : handleSound_Broadcast(p)
  \/ \E p \in Player : AddPlayer_Export(p)
  \/ \E p \in Player : AddPlayer_Insert(p)
  \/ \E p \in Player : AddPlayer_RemoveLobbyPlayer(p)
  \/ \E p \in Player : AddPlayer_Notify(p)
  \/ \E p \in Player : AddPlayer_Broadcast(p)
  \/ \E p \in Player : AddPlayer_StateBroadcast(p)
  \/ \E p \in Player : JoinSession_SetSessionID(p)
  \/ \E p \in Player : AddSession_Insert(p)
  \/ \E p \in Player : RemoveSession_Delete(p)
  \/ \E x \in Proc : SessionList_Format(x)
  \/ \E x \in Proc : SessionList_Broadcast(x)
  \/ \E p \in Player : ReadError(p)
  \/ \E p \in Player : PingFailure(p)
  \/ \E p \in Player : HandleDisconnectAgain(p)
  \/ \E p \in Player : CloseConnection(p)
  \/ \E p \in Player : GridRemovePlayer(p)
  \/ \E p \in Player : RemovePlayer(p)
  \/ \E p \in Player : RemovePlayer_Broadcast(p)
  \/ \E p \in Player : RemovePlayer_StateBroadcast(p)
  \/ \E p \in Player : HandleDisconnect_CleanUp(p)
  \/ \E p \in Player : HandleDisconnect_Lobby(p)
  \/ CleanupLoop_Scan
  \/ CleanupLoop_Remove
  \/ HealthHandler

SpecHealth == Init /\ [][NextHealth]_vars

\* the players whose connection the server has accepted and not given up
Connected == {p \in Player : pc[p] \notin {"new", "done"} /\ Conn[p] = "open"}

\* C40: a response of the health endpoint given while every goroutine is
\* between two handlers carries as players the number of connected players,
\* those in the lobby and those in a session alike, and as sessions the number
\* of sessions in the Registry
C40_HealthCounts ==
  [][(health' # health /\ AllAtRest) =>
        /\ health'.players = Cardinality(Connected)
        /\ health'.sessions = Cardinality(Sessions)]_vars

====
